---------------------------- MODULE Spec2Model ----------------------------
(***************************************************************************)
(* A model of the PPT generator: backend.py (slide-count heuristic, the    *)
(* Ollama client with its stop watcher, the JSON extractor, the slide      *)
(* coercion, generate_presentation) and app.py (start_generation with its  *)
(* worker thread, stop_generation and the polling loop of main).           *)
(*                                                                         *)
(* Texts (topics, model replies, titles, points) are sequences of tokens.  *)
(* A token is one character of the text (a bracket, a comma, a quote, a    *)
(* blank) or one indivisible run of characters (a word, a marker tag).     *)
(***************************************************************************)
EXTENDS Integers, Sequences, FiniteSets, TLC

(***************************************************************************)
(* Tokens                                                                  *)
(***************************************************************************)
DQ == "\""
SQ == "'"
LDQ == "LDQ"
RDQ == "RDQ"
LSQ == "LSQ"
RSQ == "RSQ"
ENDASH == "ENDASH"
EMDASH == "EMDASH"
BULLET == "BULLET"
BSLASH == "BSLASH"

\* str.strip() / \s : the whitespace class
WS == {" "}

\* re.IGNORECASE makes both spellings of each marker match
OpenTags == {"<json>", "<JSON>"}
CloseTags == {"</json>", "</JSON>"}

(***************************************************************************)
(* Sequence helpers                                                        *)
(***************************************************************************)
RECURSIVE LStrip(_)
LStrip(s) ==
    IF s # <<>> /\ Head(s) \in WS THEN LStrip(Tail(s)) ELSE s

RECURSIVE RStrip(_)
RStrip(s) ==
    IF s # <<>> /\ s[Len(s)] \in WS THEN RStrip(SubSeq(s, 1, Len(s) - 1)) ELSE s

\* str.strip()
Strip(s) == RStrip(LStrip(s))

\* least index >= from whose token is in set, 0 when there is none (str.find)
FindFrom(s, set, from) ==
    LET hits == {i \in from..Len(s) : s[i] \in set}
    IN IF hits = {} THEN 0 ELSE CHOOSE i \in hits : \A j \in hits : i <= j

(***************************************************************************)
(* extract_and_parse_json: the candidate                                   *)
(***************************************************************************)
\* variant of TagMatch that is content with an opening marker alone
TagMatch_OpenOnly(text) ==
    LET o == FindFrom(text, OpenTags, 1)
    IN [found |-> o # 0,
        str |-> IF o # 0 THEN Strip(SubSeq(text, o + 1, Len(text))) ELSE <<>>]

\* re.search(r"<json>\s*(.*?)\s*</json>", text, DOTALL | IGNORECASE): the
\* first opening marker and the first closing marker after it
TagMatch(text) ==
    LET o == FindFrom(text, OpenTags, 1)
        c == IF o = 0 THEN 0 ELSE FindFrom(text, CloseTags, o + 1)
    IN [found |-> o # 0 /\ c # 0,
        str |-> IF o # 0 /\ c # 0 THEN Strip(SubSeq(text, o + 1, c - 1)) ELSE <<>>]

\* the depth scan of lines 208-218: the index of the "]" that brings the
\* depth back to zero, 0 when the loop runs to its else
RECURSIVE ScanClose(_, _, _)
ScanClose(text, i, depth) ==
    IF i > Len(text) THEN 0
    ELSE IF text[i] = "[" THEN ScanClose(text, i + 1, depth + 1)
    ELSE IF text[i] = "]" THEN
        IF depth - 1 = 0 THEN i ELSE ScanClose(text, i + 1, depth - 1)
    ELSE ScanClose(text, i + 1, depth)

BracketMatch(text) ==
    LET start == FindFrom(text, {"["}, 1)
        close == IF start = 0 THEN 0 ELSE ScanClose(text, start, 0)
    IN [found |-> start # 0 /\ close # 0,
        str |-> IF start # 0 /\ close # 0
                THEN Strip(SubSeq(text, start, close)) ELSE <<>>]

\* lines 195-218: the candidate string, or none (return None)
Candidate(text) ==
    IF text = <<>> THEN [found |-> FALSE, str |-> <<>>]
    ELSE IF TagMatch(text).found THEN TagMatch(text)
    ELSE BracketMatch(text)

(***************************************************************************)
(* extract_and_parse_json: cleaning                                        *)
(***************************************************************************)
\* s[i..] starts with pat
StartsWithAt(s, i, pat) ==
    i + Len(pat) - 1 <= Len(s) /\ \A k \in 1..Len(pat) : s[i + k - 1] = pat[k]

\* str.replace(pat, rep) for a non-empty pat: left to right, no overlaps
RECURSIVE ReplaceAll(_, _, _, _)
ReplaceAll(s, i, pat, rep) ==
    IF i > Len(s) THEN <<>>
    ELSE IF StartsWithAt(s, i, pat) THEN rep \o ReplaceAll(s, i + Len(pat), pat, rep)
    ELSE <<s[i]>> \o ReplaceAll(s, i + 1, pat, rep)

\* Line 222 as Python reads it: its first """ opens a triple-quoted string
\* that runs to the second """, so the line is ONE call,
\* replace(<the 15 characters , '"').replace( >, '"'), and no curly quote
\* is named in it.
Line222Pattern == <<",", " ", SQ, DQ, SQ, ")", ".replace(">>

\* Line 223 as written: both calls replace the ASCII apostrophe by itself.
\* Line 224: the en dash and the em dash become "-".
ReplaceQuotes(s) ==
    LET a == ReplaceAll(s, 1, Line222Pattern, <<DQ>>)
        b == ReplaceAll(ReplaceAll(a, 1, <<SQ>>, <<SQ>>), 1, <<SQ>>, <<SQ>>)
    IN ReplaceAll(ReplaceAll(b, 1, <<ENDASH>>, <<"-">>), 1, <<EMDASH>>, <<"-">>)

\* least index >= i that is past the end or holds no whitespace
RECURSIVE SkipWs(_, _)
SkipWs(s, i) ==
    IF i <= Len(s) /\ s[i] \in WS THEN SkipWs(s, i + 1) ELSE i

\* re.sub(r",\s*([\]\}])", r"\1", s): left to right, matches do not overlap
RECURSIVE RemoveTrailingCommas(_, _)
RemoveTrailingCommas(s, i) ==
    IF i > Len(s) THEN <<>>
    ELSE LET j == SkipWs(s, i + 1)
         IN IF s[i] = "," /\ j <= Len(s) /\ s[j] \in {"]", "}"}
            THEN <<s[j]>> \o RemoveTrailingCommas(s, j + 1)
            ELSE <<s[i]>> \o RemoveTrailingCommas(s, i + 1)

\* lines 220-225
Clean(s) == RemoveTrailingCommas(ReplaceQuotes(s), 1)

(***************************************************************************)
(* Python values, as json.loads and ast.literal_eval build them            *)
(***************************************************************************)
VStr(s) == [t |-> "str", s |-> s]
VInt(neg, digits) == [t |-> "int", neg |-> neg, d |-> digits]
VNone == [t |-> "none"]
VList(items) == [t |-> "list", items |-> items]
VDict(keys, vals) == [t |-> "dict", keys |-> keys, vals |-> vals]
VSet(items) == [t |-> "set", items |-> items]

\* what Python can hash: a dict key, a set element
Hashable(v) == v.t \in {"str", "int", "none"}

PFail == [ok |-> FALSE, v |-> VNone, n |-> 0]
POk(v, n) == [ok |-> TRUE, v |-> v, n |-> n]

(***************************************************************************)
(* The two parsers of line 228, over the tokens of the model: mode "json"  *)
(* is json.loads, mode "py" is ast.literal_eval.  They differ in the       *)
(* quotes a string may use, in null against None, in the trailing comma,   *)
(* in the keys of a mapping, in the set display and in the sign.           *)
(***************************************************************************)
Quotes(mode) == IF mode = "json" THEN {DQ} ELSE {DQ, SQ}

\* the maximal run of digits from i: the index after it
RECURSIVE DigitsEnd(_, _)
DigitsEnd(s, i) ==
    IF i <= Len(s) /\ s[i] = "1" THEN DigitsEnd(s, i + 1) ELSE i

\* a string literal opened at i; Python joins adjacent literals
RECURSIVE ParseString(_, _, _)
ParseString(s, i, mode) ==
    LET close == FindFrom(s, {s[i]}, i + 1)
    IN IF close = 0 THEN PFail
       ELSE LET body == SubSeq(s, i + 1, close - 1)
                k == SkipWs(s, close + 1)
            IN IF mode = "py" /\ k <= Len(s) /\ s[k] \in Quotes(mode)
               THEN LET more == ParseString(s, k, mode)
                    IN IF more.ok THEN POk(VStr(body \o more.v.s), more.n)
                       ELSE PFail
               ELSE POk(VStr(body), close + 1)

ParseNumber(s, i, mode) ==
    IF s[i] = "1" THEN POk(VInt(FALSE, SubSeq(s, i, DigitsEnd(s, i) - 1)), DigitsEnd(s, i))
    ELSE \* s[i] = "-": json wants the digits at once, Python allows blanks
        LET k == IF mode = "py" THEN SkipWs(s, i + 1) ELSE i + 1
        IN IF k <= Len(s) /\ s[k] = "1"
           THEN POk(VInt(TRUE, SubSeq(s, k, DigitsEnd(s, k) - 1)), DigitsEnd(s, k))
           ELSE PFail

RECURSIVE ParseValue(_, _, _)
RECURSIVE ParseItems(_, _, _, _, _)
RECURSIVE ParsePairs(_, _, _, _, _, _)

\* the elements of a list or of a set display, up to the closer; only
\* Python takes the closer right after a comma
ParseItems(s, i, mode, closer, acc) ==
    LET k == SkipWs(s, i)
    IN IF k > Len(s) THEN PFail
       ELSE IF s[k] = closer THEN
            IF acc = <<>> \/ mode = "py" THEN POk(VList(acc), k + 1) ELSE PFail
       ELSE LET e == ParseValue(s, k, mode)
                m == IF e.ok THEN SkipWs(s, e.n) ELSE 0
            IN IF ~e.ok \/ m > Len(s) THEN PFail
               ELSE IF s[m] = closer THEN POk(VList(Append(acc, e.v)), m + 1)
               ELSE IF s[m] = "," THEN ParseItems(s, m + 1, mode, closer, Append(acc, e.v))
               ELSE PFail

\* the key: value pairs of a mapping, up to "}"
ParsePairs(s, i, mode, keys, vals, first) ==
    LET k == SkipWs(s, i)
    IN IF k > Len(s) THEN PFail
       ELSE IF s[k] = "}" THEN
            IF first \/ mode = "py" THEN POk(VDict(keys, vals), k + 1) ELSE PFail
       ELSE LET key == ParseValue(s, k, mode)
                c == IF key.ok THEN SkipWs(s, key.n) ELSE 0
            IN IF ~key.ok \/ c > Len(s) \/ (mode = "json" /\ key.v.t # "str") THEN PFail
               ELSE IF s[c] # ":" THEN PFail
               ELSE LET c2 == SkipWs(s, c + 1)
                        val == IF c2 <= Len(s) THEN ParseValue(s, c2, mode) ELSE PFail
                        m == IF val.ok THEN SkipWs(s, val.n) ELSE 0
                    IN IF ~val.ok \/ m > Len(s) \/ ~Hashable(key.v) THEN PFail
                       ELSE IF s[m] = "}"
                            THEN POk(VDict(Append(keys, key.v), Append(vals, val.v)), m + 1)
                       ELSE IF s[m] = ","
                            THEN ParsePairs(s, m + 1, mode, Append(keys, key.v),
                                            Append(vals, val.v), FALSE)
                       ELSE PFail

\* what follows "{": a mapping, or for Python a set display
ParseBrace(s, i, mode) ==
    LET k == SkipWs(s, i + 1)
        asDict == ParsePairs(s, i + 1, mode, <<>>, <<>>, TRUE)
        asSet == ParseItems(s, i + 1, mode, "}", <<>>)
    IN IF asDict.ok \/ mode = "json" THEN asDict
       ELSE IF k <= Len(s) /\ s[k] # "}" /\ asSet.ok
               /\ \A j \in 1..Len(asSet.v.items) : Hashable(asSet.v.items[j])
            THEN POk(VSet(asSet.v.items), asSet.n)
       ELSE PFail

\* one value starting at the token i (not a blank)
ParseValue(s, i, mode) ==
    IF i > Len(s) THEN PFail
    ELSE IF s[i] = "[" THEN ParseItems(s, i + 1, mode, "]", <<>>)
    ELSE IF s[i] = "{" THEN ParseBrace(s, i, mode)
    ELSE IF s[i] \in Quotes(mode) THEN ParseString(s, i, mode)
    ELSE IF s[i] \in {"1", "-"} THEN ParseNumber(s, i, mode)
    ELSE IF s[i] = "null" /\ mode = "json" THEN POk(VNone, i + 1)
    ELSE IF s[i] = "None" /\ mode = "py" THEN POk(VNone, i + 1)
    ELSE PFail

\* parser(json_str): one value and nothing after it but blanks
Parse(s, mode) ==
    LET r == ParseValue(s, SkipWs(s, 1), mode)
    IN IF r.ok /\ SkipWs(s, r.n) > Len(s) THEN r ELSE PFail

\* lines 227-236: the first parser whose result is a list decides
ParseAttempts(s) ==
    IF Parse(s, "json").ok /\ Parse(s, "json").v.t = "list"
        THEN [isList |-> TRUE, items |-> Parse(s, "json").v.items]
    ELSE IF Parse(s, "py").ok /\ Parse(s, "py").v.t = "list"
        THEN [isList |-> TRUE, items |-> Parse(s, "py").v.items]
    ELSE [isList |-> FALSE, items |-> <<>>]

\* extract_and_parse_json: isList FALSE is the None it returns
extract_and_parse_json(text) ==
    IF Candidate(text).found THEN ParseAttempts(Clean(Candidate(text).str))
    ELSE [isList |-> FALSE, items |-> <<>>]

(***************************************************************************)
(* str() and repr() of a parsed value                                      *)
(***************************************************************************)
RECURSIVE EscapeQuotes(_)
EscapeQuotes(s) ==
    IF s = <<>> THEN <<>>
    ELSE (IF Head(s) = SQ THEN <<BSLASH, SQ>> ELSE <<Head(s)>>) \o EscapeQuotes(Tail(s))

HasToken(s, c) == \E i \in 1..Len(s) : s[i] = c

\* repr of a str: single quotes, double quotes when only ' occurs in it
ReprStr(s) ==
    IF HasToken(s, SQ) /\ ~HasToken(s, DQ) THEN <<DQ>> \o s \o <<DQ>>
    ELSE <<SQ>> \o EscapeQuotes(s) \o <<SQ>>

RECURSIVE Repr(_)
RECURSIVE ReprJoin(_)
RECURSIVE ReprPairs(_, _)
ReprJoin(items) ==
    IF items = <<>> THEN <<>>
    ELSE IF Len(items) = 1 THEN Repr(items[1])
    ELSE Repr(items[1]) \o <<",", " ">> \o ReprJoin(Tail(items))

ReprPairs(keys, vals) ==
    IF keys = <<>> THEN <<>>
    ELSE Repr(keys[1]) \o <<":", " ">> \o Repr(vals[1])
         \o (IF Len(keys) = 1 THEN <<>> ELSE <<",", " ">> \o ReprPairs(Tail(keys), Tail(vals)))

\* index of the last entry of a mapping display with this key, 0 if none:
\* a repeated key keeps its first place and takes the last value
LastKey(keys, k) ==
    IF \E i \in 1..Len(keys) : keys[i] = k
    THEN CHOOSE i \in 1..Len(keys) :
            keys[i] = k /\ \A j \in 1..Len(keys) : keys[j] = k => j <= i
    ELSE 0

FirstKey(keys, k) ==
    CHOOSE i \in 1..Len(keys) : keys[i] = k /\ \A j \in 1..Len(keys) : keys[j] = k => i <= j

\* the entries of the dict a mapping display builds
RECURSIVE DictEntries(_, _, _)
DictEntries(keys, vals, i) ==
    IF i > Len(keys) THEN [keys |-> <<>>, vals |-> <<>>]
    ELSE LET rest == DictEntries(keys, vals, i + 1)
         IN IF FirstKey(keys, keys[i]) = i
            THEN [keys |-> <<keys[i]>> \o rest.keys,
                  vals |-> <<vals[LastKey(keys, keys[i])]>> \o rest.vals]
            ELSE rest

Repr(v) ==
    IF v.t = "str" THEN ReprStr(v.s)
    ELSE IF v.t = "int" THEN (IF v.neg THEN <<"-">> ELSE <<>>) \o v.d
    ELSE IF v.t = "none" THEN <<"None">>
    ELSE IF v.t = "list" THEN <<"[">> \o ReprJoin(v.items) \o <<"]">>
    ELSE IF v.t = "set" THEN <<"{">> \o ReprJoin(v.items) \o <<"}">>
    ELSE LET e == DictEntries(v.keys, v.vals, 1)
         IN <<"{">> \o ReprPairs(e.keys, e.vals) \o <<"}">>

\* str(value)
PyStr(v) == IF v.t = "str" THEN v.s ELSE Repr(v)

(***************************************************************************)
(* validate_and_coerce_slides                                              *)
(***************************************************************************)
\* item.get(key, default)
DictGet(item, key, default) ==
    IF LastKey(item.keys, VStr(<<key>>)) = 0 THEN default
    ELSE item.vals[LastKey(item.keys, VStr(<<key>>))]

\* data[:n] of a Python list: a negative n counts from the end
PySlice(data, n) ==
    IF n >= 0 THEN SubSeq(data, 1, IF n < Len(data) THEN n ELSE Len(data))
    ELSE SubSeq(data, 1, Len(data) + n)

\* variant of CleanPoints that keeps the strings as they are
RECURSIVE CleanPoints_Untrimmed(_)
CleanPoints_Untrimmed(points) ==
    IF points = <<>> THEN <<>>
    ELSE (IF Head(points).t = "str" /\ Strip(Head(points).s) # <<>>
          THEN <<Head(points).s>> ELSE <<>>) \o CleanPoints_Untrimmed(Tail(points))

\* lines 252-256
RECURSIVE CleanPoints(_)
CleanPoints(points) ==
    IF points = <<>> THEN <<>>
    ELSE (IF Head(points).t = "str" /\ Strip(Head(points).s) # <<>>
          THEN <<Strip(Head(points).s)>> ELSE <<>>) \o CleanPoints(Tail(points))

\* lines 246-261: the slide of one dict
CoerceItem(item) ==
    LET title == PyStr(DictGet(item, "title", VStr(<<"Untitled Slide">>)))
        points == DictGet(item, "points", VList(<<>>))
    IN [title |-> title,
        points |-> IF points.t = "list" THEN CleanPoints(points.items) ELSE <<>>]

RECURSIVE CoerceAll(_)
CoerceAll(items) ==
    IF items = <<>> THEN <<>>
    ELSE (IF Head(items).t = "dict" THEN <<CoerceItem(Head(items))>> ELSE <<>>)
         \o CoerceAll(Tail(items))

validate_and_coerce_slides(data, max_slides) == CoerceAll(PySlice(data, max_slides))

(***************************************************************************)
(* estimate_slide_count_from_keywords                                      *)
(***************************************************************************)
BroadWords == {"overview", "introduction", "complete", "comprehensive", "full", "entire"}
ProcessWords == {"process", "steps", "workflow", "procedure", "implementation"}
TrainingWords == {"training", "course", "learning", "education", "tutorial"}

\* str.lower() of one token: the capitalised spellings the topics use
Lower(c) ==
    IF c = "Overview" THEN "overview"
    ELSE IF c = "Steps" THEN "steps"
    ELSE IF c = "Course" THEN "course"
    ELSE c

\* "word in text" is a substring test: a listed word is found in a token
\* that is the word or that contains it
Within(word, c) ==
    \/ c = word
    \/ <<word, c>> \in {<<"process", "processes">>, <<"full", "fully">>}

\* sum(... for word in words if word in text): one term per listed word
\* that occurs in the text, however often it occurs
WordsPresent(words, text) ==
    Cardinality({w \in words : \E i \in 1..Len(text) : Within(w, Lower(text[i]))})

\* text.count(",")
CountCommas(text) == Cardinality({i \in 1..Len(text) : text[i] = ","})

\* len(user_input.split()): the maximal runs of non-blank tokens
WordCount(text) ==
    Cardinality({i \in 1..Len(text) : text[i] \notin WS /\ (i = 1 \/ text[i - 1] \in WS)})

\* variant of Score2 that takes the remainder of the word count
Score2_Remainder(text) ==
    4 * WordsPresent(BroadWords, text) + 3 * WordsPresent(ProcessWords, text)
    + 4 * WordsPresent(TrainingWords, text) + CountCommas(text)
    + 2 * (WordCount(text) % 25)

\* the score of lines 105-110, doubled so that 1.5 and 0.5 stay integers
Score2(text) ==
    4 * WordsPresent(BroadWords, text) + 3 * WordsPresent(ProcessWords, text)
    + 4 * WordsPresent(TrainingWords, text) + CountCommas(text)
    + 2 * (WordCount(text) \div 25)

Max(a, b) == IF a >= b THEN a ELSE b
Min(a, b) == IF a <= b THEN a ELSE b

\* line 112: max(3, min(18, int(score + 5)))
estimate_slide_count_from_keywords(text) ==
    Max(3, Min(18, (Score2(text) + 10) \div 2))

(***************************************************************************)
(* Configuration (load_config, cached for the life of the process)         *)
(***************************************************************************)
\* the defaults of lines 64-67 with the shipped prompt template
DefaultConfig == [min_slides |-> 3, max_slides |-> 20, template_ok |-> TRUE]
\* a prompt_config.json that allows a single slide
OneSlideConfig == [min_slides |-> 1, max_slides |-> 1, template_ok |-> TRUE]
\* a prompt_config.json whose adaptive_prompt_template names a slot that
\* line 486 does not fill: str.format raises KeyError
BadTemplateConfig == [min_slides |-> 3, max_slides |-> 20, template_ok |-> FALSE]

\* with them, prompt_config.json files whose range lies above 18, is
\* inverted, or is negative: lines 72-88 return what the file holds,
\* unvalidated
Configs ==
    {DefaultConfig, OneSlideConfig, BadTemplateConfig,
     [min_slides |-> 20, max_slides |-> 30, template_ok |-> TRUE],
     [min_slides |-> 10, max_slides |-> 5, template_ok |-> TRUE],
     [min_slides |-> -5, max_slides |-> -2, template_ok |-> TRUE]}

\* variant of SlideBound that leaves out the clamp to the configured range
SlideBound_HeuristicOnly(cfg, topic) ==
    estimate_slide_count_from_keywords(topic)

\* lines 482-483
SlideBound(cfg, topic) ==
    Max(cfg.min_slides, Min(cfg.max_slides, estimate_slide_count_from_keywords(topic)))

(***************************************************************************)
(* The fallback outline of lines 513-521, as the list of dicts it is       *)
(***************************************************************************)
FallbackPoints ==
    << <<BULLET, " ", "Key concepts and fundamentals">>,
       <<BULLET, " ", "Practical applications and examples">>,
       <<BULLET, " ", "Implementation strategies">>,
       <<BULLET, " ", "Best practices and considerations">> >>

TitleKey == VStr(<<"title">>)
PointsKey == VStr(<<"points">>)

FallbackData(topic) ==
    << VDict(<<TitleKey, PointsKey>>,
             <<VStr(IF Strip(topic) # <<>> THEN Strip(topic) ELSE <<"Presentation">>),
               VList(<<>>)>>),
       VDict(<<TitleKey, PointsKey>>,
             <<VStr(<<"Overview">>),
               VList([i \in 1..Len(FallbackPoints) |-> VStr(FallbackPoints[i])])>>) >>

(***************************************************************************)
(* create_presentation: the deck it saves                                  *)
(***************************************************************************)
\* lines 335-340: the point without a leading bullet or dash
StripMarker(point) ==
    LET a == Strip(point)
        b == IF a # <<>> /\ Head(a) = BULLET THEN Strip(Tail(a)) ELSE a
    IN IF b # <<>> /\ Head(b) = "-" THEN Strip(Tail(b)) ELSE b

\* line 348: p.text = f"(bullet) {point_text}"
Paragraph(point) == <<BULLET, " ">> \o StripMarker(point)

\* lines 288-434: one slide per entry; the three placeholder strategies
\* write the same paragraphs
RenderSlide(idx, slide) ==
    [layout |-> IF idx = 0 THEN "title" ELSE "content",
     title |-> slide.title,
     paragraphs |-> IF idx > 0 /\ slide.points # <<>>
                    THEN [k \in 1..Len(slide.points) |-> Paragraph(slide.points[k])]
                    ELSE <<>>]

create_presentation(slide_data) ==
    [i \in 1..Len(slide_data) |-> RenderSlide(i - 1, slide_data[i])]

(***************************************************************************)
(* Inputs and bounds                                                       *)
(***************************************************************************)
\* generations one session starts
MaxGens == 2
Gens == 1..MaxGens

\* topics a direct caller of generate_presentation passes (test_app.py
\* calls it without the app): empty, blank, plain, padded with keywords
DirectTopics ==
    { <<>>, <<" ">>, <<" ", " ">>, <<"Python", " ", "basics">>,
      <<" ", "Overview", ",", " ", "Steps", " ">> }

\* main() starts a generation only if topic.strip() is not empty (line 356)
AppTopics == {<<"Python", " ", "basics">>}

\* scenario A of the specification: two records between the markers
ReplyTwoSlides ==
    <<"<json>", "[",
      "{", DQ, "title", DQ, ":", DQ, "Python", DQ, ",", DQ, "points", DQ, ":", "[", "]", "}", ",",
      "{", DQ, "title", DQ, ":", DQ, "Syntax", DQ, ",", DQ, "points", DQ, ":",
           "[", DQ, "Indentation matters", DQ, ",", DQ, "Dynamic typing", DQ, "]", "}",
      "]", "</json>">>
\* scenario B: prose without a bracket
ReplyProse == <<" ", "Sorry", " ", "x", " ">>
\* a JSON array that holds no object
ReplyNoRecords == <<"[", "1", ",", DQ, "A", DQ, "]">>
\* an empty array
ReplyEmptyList == <<"[", "]">>

\* what the model process may have written to its stdout
Stdouts == {ReplyTwoSlides, ReplyProse, ReplyNoRecords, ReplyEmptyList}

\* the replies a generation of the Streamlit session receives
AppStdouts == {ReplyTwoSlides, ReplyProse}
Replies(via) == IF via = "direct" THEN Stdouts ELSE AppStdouts

(***************************************************************************)
(* State                                                                   *)
(***************************************************************************)
VARIABLES
    config,     \* load_config(): the cached configuration
    ngen,       \* generations started so far; Gens above it are unused
    worker,     \* per generation: the thread running generate_presentation
    token,      \* per generation: its threading.Event (stop_event)
    container,  \* per generation: its result_container dict
    process,    \* per generation: the ollama subprocess and self._process
    watcher,    \* per generation: the check_stop thread
    disk,       \* per generation: the .pptx its renderer saved
    session,    \* st.session_state
    caller,     \* where the script run of main() stands
    elapsed,    \* time.time() - generation_start_time, in seconds
    hist        \* per generation: what has happened (read by properties only)

vars == <<config, ngen, worker, token, container, process, watcher, disk,
          session, caller, elapsed, hist>>

NoData == [isList |-> FALSE, items |-> <<>>]
NoMetadata == [present |-> FALSE, slide_count |-> 0]

IdleWorker ==
    [pc |-> "idle", via |-> "none", topic |-> <<>>, use_token |-> FALSE,
     max_slides |-> 0, response |-> <<>>, slides_data |-> NoData, slides |-> <<>>,
     outcome |-> "none", error |-> "none", metadata |-> NoMetadata]

\* line 262; status "absent" before the dict exists, message "" while the
\* key is missing
FreshContainer ==
    [status |-> "generating", file_path |-> 0, metadata |-> NoMetadata,
     error |-> "none", message |-> ""]
AbsentContainer == [FreshContainer EXCEPT !.status = "absent"]

NoProcess == [state |-> "none", rc |-> 0, ref |-> FALSE, sig |-> "none"]
NoFile == [exists |-> FALSE, deck |-> <<>>]

NoHist ==
    [set_at |-> "never", set_in_flight |-> FALSE,
     comm_end |-> "none", config_loaded |-> FALSE, extractor_ran |-> FALSE,
     render_called |-> FALSE, render_raised |-> FALSE,
     worker_writes |-> 0, caller_writes |-> 0,
     stop_after |-> "none", delivered |-> FALSE]

\* init_session_state (lines 109-123); 0 stands for None
InitialSession ==
    [generation_active |-> FALSE, stop_event |-> 0, result_container |-> 0,
     generated_file |-> 0, generation_metadata |-> NoMetadata,
     error_message |-> "none", success_message |-> "none"]

IdleCaller == [pc |-> "idle", by_timeout |-> FALSE]

\* stop_event and stop_event.is_set()
TokenSet(g) == worker[g].use_token /\ token[g]

(***************************************************************************)
(* generate_presentation and OllamaClient.ask_ollama, one step per         *)
(* statement that reads or writes something another thread can touch       *)
(***************************************************************************)
\* where the caller of generate_presentation goes on: the handlers of
\* generation_thread (lines 280-302), or the end of a direct call
After(w, outcome) ==
    IF w.via = "direct" THEN "done"
    ELSE IF outcome = "Completed" THEN "th_chk"
    ELSE IF outcome = "Stopped" THEN "th_exc_stopped"
    ELSE "th_exc_chk"

\* generate_presentation is left: in generation_thread its locals are gone
\* and only the returned pair or the exception remains; a direct caller's
\* record keeps them for inspection
Unwind(w) ==
    IF w.via = "direct" THEN w
    ELSE [w EXCEPT !.topic = <<>>, !.max_slides = 0, !.response = <<>>,
                   !.slides_data = NoData, !.slides = <<>>]

\* variant of RaiseStopped without the handler of lines 543-544: the
\* GenerationStopped is caught by line 545 and wrapped
RaiseStopped_Wrapped(w) ==
    [Unwind(w) EXCEPT !.outcome = "Failed",
                      !.error = "Failed to generate presentation: Generation stopped by user",
                      !.pc = After(w, "Failed")]

\* raise GenerationStopped(...), re-raised by lines 180-181 and 543-544
RaiseStopped(w) ==
    [Unwind(w) EXCEPT !.outcome = "Stopped", !.error = "Generation stopped by user",
                      !.pc = After(w, "Stopped")]

\* an exception inside the try of line 477 that is not GenerationStopped:
\* lines 545-547 wrap it
RaiseWrapped(w, msg) ==
    [Unwind(w) EXCEPT !.outcome = "Failed",
                      !.error = "Failed to generate presentation: " \o msg,
                      !.pc = After(w, "Failed")]

\* variant of BlankTopic without the strip(): only the empty string is blank
BlankTopic_NoStrip(topic) == topic = <<>>

\* lines 470-471: before the try, so the error is not wrapped
BlankTopic(topic) == Strip(topic) = <<>>

GP_TopicCheck(g) ==
    /\ worker[g].pc = "gp_topic"
    /\ worker' = [worker EXCEPT ![g] =
            IF BlankTopic(@.topic)
            THEN [Unwind(@) EXCEPT !.outcome = "Failed", !.error = "Topic cannot be empty",
                                   !.pc = After(worker[g], "Failed")]
            ELSE [@ EXCEPT !.pc = "gp_chk1"]]
    /\ UNCHANGED <<config, ngen, token, container, process, watcher, disk,
                   session, caller, elapsed, hist>>

\* variant of Checkpoint that never reads the token
Checkpoint_Unread(g, at, next) ==
    /\ worker[g].pc = at
    /\ worker' = [worker EXCEPT ![g].pc = next]

\* a checkpoint: if stop_event and stop_event.is_set(): raise GenerationStopped
Checkpoint(g, at, next) ==
    /\ worker[g].pc = at
    /\ worker' = [worker EXCEPT ![g] =
            IF TokenSet(g) THEN RaiseStopped(@) ELSE [@ EXCEPT !.pc = next]]

\* lines 473-475
GP_Check1(g) ==
    /\ Checkpoint(g, "gp_chk1", "gp_config")
    /\ UNCHANGED <<config, ngen, token, container, process, watcher, disk,
                   session, caller, elapsed, hist>>

\* lines 478-496: the configuration, the slide bound, the prompt, the client
GP_Config(g) ==
    /\ worker[g].pc = "gp_config"
    /\ worker' = [worker EXCEPT ![g] =
            IF config.template_ok
            THEN [@ EXCEPT !.max_slides = SlideBound(config, worker[g].topic), !.pc = "ask_chk"]
            ELSE RaiseWrapped(@, "KeyError")]
    /\ hist' = [hist EXCEPT ![g].config_loaded = TRUE]
    /\ UNCHANGED <<config, ngen, token, container, process, watcher, disk,
                   session, caller, elapsed>>

\* lines 128-129
ASK_Check(g) ==
    /\ Checkpoint(g, "ask_chk", "ask_popen")
    /\ UNCHANGED <<config, ngen, token, container, process, watcher, disk,
                   session, caller, elapsed, hist>>

\* lines 132-158: Popen starts the process and, with a token, the watcher
\* thread; or it raises FileNotFoundError (lines 178-179, the token is not
\* read) or another OSError (lines 182-185); finally: self._process = None
ASK_Popen(g) ==
    /\ worker[g].pc = "ask_popen"
    /\ \E how \in {"started", "not_found", "os_error"} :
        IF how = "started"
        THEN /\ process' = [process EXCEPT ![g] =
                    [state |-> "running", rc |-> 0, ref |-> TRUE, sig |-> "none"]]
             /\ watcher' = [watcher EXCEPT ![g] =
                    IF worker[g].use_token THEN "loop" ELSE "off"]
             /\ worker' = [worker EXCEPT ![g].pc = "ask_comm"]
        ELSE /\ worker' = [worker EXCEPT ![g] =
                    IF how = "os_error" /\ TokenSet(g) THEN RaiseStopped(@)
                    ELSE IF how = "os_error" THEN RaiseWrapped(@, "Ollama request failed")
                    ELSE RaiseWrapped(@, "Ollama executable not found")]
             /\ UNCHANGED <<process, watcher>>
    /\ UNCHANGED <<config, ngen, token, container, disk, session, caller, elapsed, hist>>

\* line 160, communicate() returns: the process has exited
ASK_CommReturn(g) ==
    /\ worker[g].pc = "ask_comm"
    /\ process[g].state = "exited"
    /\ \E stdout \in Replies(worker[g].via) :
        worker' = [worker EXCEPT ![g].response = stdout, ![g].pc = "ask_chk2"]
    /\ hist' = [hist EXCEPT ![g].comm_end =
            IF process[g].rc = 0 THEN "exit_zero" ELSE "exit_nonzero"]
    /\ UNCHANGED <<config, ngen, token, container, process, watcher, disk,
                   session, caller, elapsed>>

\* line 160 raises TimeoutExpired while the process runs: lines 174-177
\* kill it and raise PPTGenerationError without reading the token
ASK_CommTimeout(g) ==
    /\ worker[g].pc = "ask_comm"
    /\ process[g].state = "running"
    /\ process' = [process EXCEPT ![g].state = "exited", ![g].rc = 1, ![g].ref = FALSE]
    /\ worker' = [worker EXCEPT ![g] = RaiseWrapped(@, "Ollama request timed out")]
    /\ hist' = [hist EXCEPT ![g].comm_end = "timeout"]
    /\ UNCHANGED <<config, ngen, token, container, watcher, disk, session,
                   caller, elapsed>>

\* line 160 raises another exception (a broken pipe, a decoding error):
\* lines 182-185 read the token
ASK_CommError(g) ==
    /\ worker[g].pc = "ask_comm"
    /\ process' = [process EXCEPT ![g].ref = FALSE]
    /\ worker' = [worker EXCEPT ![g] =
            IF TokenSet(g) THEN RaiseStopped(@)
            ELSE RaiseWrapped(@, "Ollama request failed")]
    /\ hist' = [hist EXCEPT ![g].comm_end = "io_error"]
    /\ UNCHANGED <<config, ngen, token, container, watcher, disk, session,
                   caller, elapsed>>

\* lines 162-164
ASK_Check2(g) ==
    /\ worker[g].pc = "ask_chk2"
    /\ worker' = [worker EXCEPT ![g] =
            IF TokenSet(g) THEN RaiseStopped(@) ELSE [@ EXCEPT !.pc = "ask_rc"]]
    /\ process' = [process EXCEPT ![g].ref = IF TokenSet(g) THEN FALSE ELSE @]
    /\ UNCHANGED <<config, ngen, token, container, watcher, disk, session,
                   caller, elapsed, hist>>

\* lines 166-172 and the finally of line 187
ASK_ReturnCode(g) ==
    /\ worker[g].pc = "ask_rc"
    /\ worker' = [worker EXCEPT ![g] =
            IF process[g].rc # 0 /\ TokenSet(g) THEN RaiseStopped(@)
            ELSE IF process[g].rc # 0 THEN RaiseWrapped(@, "Ollama failed")
            ELSE [@ EXCEPT !.response = Strip(@), !.pc = "gp_chk2"]]
    /\ process' = [process EXCEPT ![g].ref = FALSE]
    /\ UNCHANGED <<config, ngen, token, container, watcher, disk, session,
                   caller, elapsed, hist>>

\* variant of GP_Check2 that goes on to the extractor without the test
GP_Check2_Skipped(g) ==
    /\ worker[g].pc = "gp_chk2"
    /\ worker' = [worker EXCEPT ![g].pc = "gp_extract"]
    /\ UNCHANGED <<config, ngen, token, container, process, watcher, disk,
                   session, caller, elapsed, hist>>

\* lines 499-501
GP_Check2(g) ==
    /\ Checkpoint(g, "gp_chk2", "gp_extract")
    /\ UNCHANGED <<config, ngen, token, container, process, watcher, disk,
                   session, caller, elapsed, hist>>

\* not slides_data: None or an empty list
Falsy(data) == ~data.isList \/ data.items = <<>>

\* lines 503-506
GP_Extract(g) ==
    /\ worker[g].pc = "gp_extract"
    /\ worker' = [worker EXCEPT ![g] =
            LET data == extract_and_parse_json(@.response)
            IN [@ EXCEPT !.slides_data = data,
                         !.pc = IF Falsy(data) THEN "gp_chk3" ELSE "gp_coerce"]]
    /\ hist' = [hist EXCEPT ![g].extractor_ran = TRUE]
    /\ UNCHANGED <<config, ngen, token, container, process, watcher, disk,
                   session, caller, elapsed>>

\* lines 507-521: reached only with nothing parsed
GP_Check3(g) ==
    /\ worker[g].pc = "gp_chk3"
    /\ worker' = [worker EXCEPT ![g] =
            IF TokenSet(g) THEN RaiseStopped(@)
            ELSE [@ EXCEPT !.slides_data = [isList |-> TRUE, items |-> FallbackData(worker[g].topic)],
                           !.pc = "gp_coerce"]]
    /\ UNCHANGED <<config, ngen, token, container, process, watcher, disk,
                   session, caller, elapsed, hist>>

\* line 524
GP_Coerce(g) ==
    /\ worker[g].pc = "gp_coerce"
    /\ worker' = [worker EXCEPT ![g] =
            [@ EXCEPT !.slides = validate_and_coerce_slides(worker[g].slides_data.items,
                                                            worker[g].max_slides),
                      !.pc = "gp_chk4"]]
    /\ UNCHANGED <<config, ngen, token, container, process, watcher, disk,
                   session, caller, elapsed, hist>>

\* lines 526-528
GP_Check4(g) ==
    /\ Checkpoint(g, "gp_chk4", "gp_render")
    /\ UNCHANGED <<config, ngen, token, container, process, watcher, disk,
                   session, caller, elapsed, hist>>

\* line 531: create_presentation saves the deck to a new temporary file,
\* or raises (lines 449-450) before any file exists, or raises in
\* prs.save after NamedTemporaryFile(delete=False) has created the file
GP_Render(g) ==
    /\ worker[g].pc = "gp_render"
    /\ \E how \in {"saved", "raised", "raised_in_save"} :
        /\ disk' = [disk EXCEPT ![g] =
                IF how = "saved"
                THEN [exists |-> TRUE, deck |-> create_presentation(worker[g].slides)]
                ELSE IF how = "raised_in_save" THEN [exists |-> TRUE, deck |-> <<>>]
                ELSE @]
        /\ worker' = [worker EXCEPT ![g] =
                IF how = "saved" THEN [@ EXCEPT !.pc = "gp_return"]
                ELSE RaiseWrapped(@, "Failed to create presentation")]
        /\ hist' = [hist EXCEPT ![g].render_called = TRUE,
                                ![g].render_raised = (how # "saved")]
    /\ UNCHANGED <<config, ngen, token, container, process, watcher, session,
                   caller, elapsed>>

\* lines 533-541
GP_Return(g) ==
    /\ worker[g].pc = "gp_return"
    /\ worker' = [worker EXCEPT ![g] =
            [Unwind(@) EXCEPT
                      !.outcome = "Completed",
                      !.metadata = [present |-> TRUE, slide_count |-> Len(worker[g].slides)],
                      !.pc = After(worker[g], "Completed")]]
    /\ UNCHANGED <<config, ngen, token, container, process, watcher, disk,
                   session, caller, elapsed, hist>>

(***************************************************************************)
(* The model process and the check_stop thread (lines 143-154)             *)
(***************************************************************************)
\* the process ends: by itself, or on a signal it was sent
ProcExit(g) ==
    /\ process[g].state = "running"
    /\ \E rc \in {0, 1} :
        /\ process[g].sig # "none" => rc = 1
        /\ process' = [process EXCEPT ![g].state = "exited", ![g].rc = rc]
    /\ UNCHANGED <<config, ngen, worker, token, container, watcher, disk,
                   session, caller, elapsed, hist>>

\* one turn of the while loop that changes something: the loop ends when
\* self._process is None or has exited; with the token set it sends
\* terminate() and sleeps 0.5 s; otherwise it sleeps 0.1 s and looks again
W_Loop(g) ==
    /\ watcher[g] = "loop"
    /\ IF ~process[g].ref \/ process[g].state # "running"
       THEN watcher' = [watcher EXCEPT ![g] = "done"] /\ UNCHANGED process
       ELSE /\ TokenSet(g)
            /\ process' = [process EXCEPT ![g].sig = "term"]
            /\ watcher' = [watcher EXCEPT ![g] = "grace"]
    /\ UNCHANGED <<config, ngen, worker, token, container, disk, session,
                   caller, elapsed, hist>>

\* lines 149-153 after the sleep: kill() if poll() is still None; an
\* AttributeError on a cleared self._process is swallowed by the except
W_Grace(g) ==
    /\ watcher[g] = "grace"
    /\ process' = [process EXCEPT ![g].sig =
            IF process[g].ref /\ process[g].state = "running" THEN "kill" ELSE @]
    /\ watcher' = [watcher EXCEPT ![g] = "done"]
    /\ UNCHANGED <<config, ngen, worker, token, container, disk, session,
                   caller, elapsed, hist>>

(***************************************************************************)
(* Setting a token                                                         *)
(***************************************************************************)
\* what a set() of generation g's token leaves in hist
HistOfSet(g) ==
    [hist EXCEPT ![g].set_at = IF token[g] THEN @ ELSE worker[g].pc,
                 ![g].set_in_flight =
                    @ \/ (~token[g] /\ worker[g].pc = "ask_comm"
                          /\ process[g].state = "running")]

\* test_app.py, stop_after_delay: another thread of a direct caller sets
\* the event it passed
DirectSetToken(g) ==
    /\ worker[g].via = "direct"
    /\ worker[g].use_token
    /\ worker[g].pc # "done"
    /\ ~token[g]
    /\ token' = [token EXCEPT ![g] = TRUE]
    /\ hist' = HistOfSet(g)
    /\ UNCHANGED <<config, ngen, worker, container, process, watcher, disk,
                   session, caller, elapsed>>

(***************************************************************************)
(* generation_thread: what the worker does with the outcome (app.py        *)
(* lines 280-302)                                                          *)
(***************************************************************************)
\* line 280: if not stop_event.is_set()
TH_Check(g) ==
    /\ worker[g].pc = "th_chk"
    /\ worker' = [worker EXCEPT ![g].pc = IF token[g] THEN "th_w_stopped" ELSE "th_w_status"]
    /\ UNCHANGED <<config, ngen, token, container, process, watcher, disk,
                   session, caller, elapsed, hist>>

\* variant of TH_WriteStatus that writes through st.session_state
\* instead of the dict the closure holds
TH_WriteStatus_ViaSession(g) ==
    /\ worker[g].pc = "th_w_status"
    /\ container' = [container EXCEPT ![session.result_container].status = "completed"]
    /\ worker' = [worker EXCEPT ![g].pc = "th_w_fields"]
    /\ hist' = [hist EXCEPT ![g].worker_writes = @ + 1]
    /\ UNCHANGED <<config, ngen, token, process, watcher, disk, session,
                   caller, elapsed>>

\* line 282
TH_WriteStatus(g) ==
    /\ worker[g].pc = "th_w_status"
    /\ container' = [container EXCEPT ![g].status = "completed"]
    /\ worker' = [worker EXCEPT ![g].pc = "th_w_fields"]
    /\ hist' = [hist EXCEPT ![g].worker_writes = @ + 1]
    /\ UNCHANGED <<config, ngen, token, process, watcher, disk, session,
                   caller, elapsed>>

\* lines 283-285
TH_WriteFields(g) ==
    /\ worker[g].pc = "th_w_fields"
    /\ container' = [container EXCEPT ![g].file_path = g,
                                      ![g].metadata = worker[g].metadata,
                                      ![g].message = "Successfully generated presentation!"]
    /\ worker' = [worker EXCEPT ![g].pc = "done"]
    /\ UNCHANGED <<config, ngen, token, process, watcher, disk, session,
                   caller, elapsed, hist>>

\* lines 287-288
TH_WriteStopped(g) ==
    /\ worker[g].pc = "th_w_stopped"
    /\ container' = [container EXCEPT ![g].status = "stopped",
                                      ![g].message = "Generation stopped by user"]
    /\ worker' = [worker EXCEPT ![g].pc = "th_cleanup"]
    /\ hist' = [hist EXCEPT ![g].worker_writes = @ + 1]
    /\ UNCHANGED <<config, ngen, token, process, watcher, disk, session,
                   caller, elapsed>>

\* cleanup_temp_file (backend.py lines 553-560): os.unlink if it exists
cleanup_temp_file(d, g) == [d EXCEPT ![g].exists = FALSE]

\* lines 289-290
TH_Cleanup(g) ==
    /\ worker[g].pc = "th_cleanup"
    /\ disk' = cleanup_temp_file(disk, g)
    /\ worker' = [worker EXCEPT ![g].pc = "done"]
    /\ UNCHANGED <<config, ngen, token, container, process, watcher, session,
                   caller, elapsed, hist>>

\* lines 292-294
TH_ExcStopped(g) ==
    /\ worker[g].pc = "th_exc_stopped"
    /\ container' = [container EXCEPT ![g].status = "stopped",
                                      ![g].message = "Generation stopped successfully"]
    /\ worker' = [worker EXCEPT ![g].pc = "done"]
    /\ hist' = [hist EXCEPT ![g].worker_writes = @ + 1]
    /\ UNCHANGED <<config, ngen, token, process, watcher, disk, session,
                   caller, elapsed>>

\* lines 295-296: the error is recorded only if the token is not set
TH_ExcCheck(g) ==
    /\ worker[g].pc = "th_exc_chk"
    /\ worker' = [worker EXCEPT ![g].pc = IF token[g] THEN "done" ELSE "th_exc_write"]
    /\ UNCHANGED <<config, ngen, token, container, process, watcher, disk,
                   session, caller, elapsed, hist>>

\* lines 297-298
TH_ExcWrite(g) ==
    /\ worker[g].pc = "th_exc_write"
    /\ container' = [container EXCEPT ![g].status = "error", ![g].error = worker[g].error]
    /\ worker' = [worker EXCEPT ![g].pc = "done"]
    /\ hist' = [hist EXCEPT ![g].worker_writes = @ + 1]
    /\ UNCHANGED <<config, ngen, token, process, watcher, disk, session,
                   caller, elapsed>>

(***************************************************************************)
(* The caller: script runs of main() (app.py lines 332-490)                *)
(***************************************************************************)
\* the hard timeout of line 480, in seconds
HardTimeout == 360
\* seconds the clock advances in one step of the model
TickSeconds == 200

Terminal == {"completed", "stopped", "error"}

\* render_status_messages (lines 237-251) shows and clears both messages
\* at the start of every script run
render_status_messages(ss) ==
    [ss EXCEPT !.error_message = "none", !.success_message = "none"]

\* variant of Run_Generate without the test of line 354: the button is
\* there while a generation is active
Run_Generate_WhileActive ==
    /\ caller.pc = "idle"
    /\ ngen < MaxGens
    /\ \E topic \in AppTopics :
        worker' = [worker EXCEPT ![ngen + 1] =
            [IdleWorker EXCEPT !.pc = "gp_topic", !.via = "thread",
                               !.topic = topic, !.use_token = TRUE]]
    /\ ngen' = ngen + 1
    /\ token' = [token EXCEPT ![ngen + 1] = FALSE]
    /\ container' = [container EXCEPT ![ngen + 1] = FreshContainer]
    /\ session' = [render_status_messages(session) EXCEPT
                        !.stop_event = ngen + 1, !.generation_active = TRUE,
                        !.result_container = ngen + 1]
    /\ elapsed' = 0
    /\ UNCHANGED <<config, process, watcher, disk, caller, hist>>

\* lines 355-358 with start_generation (lines 257-306): a click on
\* Generate while no generation is active, with a non-blank topic
Run_Generate ==
    /\ caller.pc = "idle"
    /\ ~session.generation_active
    /\ ngen < MaxGens
    /\ \E topic \in AppTopics :
        worker' = [worker EXCEPT ![ngen + 1] =
            [IdleWorker EXCEPT !.pc = "gp_topic", !.via = "thread",
                               !.topic = topic, !.use_token = TRUE]]
    /\ ngen' = ngen + 1
    /\ token' = [token EXCEPT ![ngen + 1] = FALSE]
    /\ container' = [container EXCEPT ![ngen + 1] = FreshContainer]
    /\ session' = [render_status_messages(session) EXCEPT
                        !.stop_event = ngen + 1, !.generation_active = TRUE,
                        !.result_container = ngen + 1]
    /\ elapsed' = 0
    /\ UNCHANGED <<config, process, watcher, disk, caller, hist>>

\* lines 366-368: a click on Stop while a generation is active
Run_Stop ==
    /\ caller.pc = "idle"
    /\ session.generation_active
    /\ session' = render_status_messages(session)
    /\ caller' = [pc |-> "stop_set", by_timeout |-> FALSE]
    /\ UNCHANGED <<config, ngen, worker, token, container, process, watcher,
                   disk, elapsed, hist>>

\* stop_generation, lines 310-311
Stop_Set ==
    /\ caller.pc = "stop_set"
    /\ IF session.stop_event # 0
       THEN /\ token' = [token EXCEPT ![session.stop_event] = TRUE]
            /\ hist' = [hist EXCEPT ![session.stop_event].stop_after =
                                        container[session.stop_event].status]
       ELSE UNCHANGED <<token, hist>>
    /\ caller' = [caller EXCEPT !.pc = "stop_write"]
    /\ UNCHANGED <<config, ngen, worker, container, process, watcher, disk,
                   session, elapsed>>

\* stop_generation, lines 313-326
Stop_Write ==
    /\ caller.pc = "stop_write"
    /\ IF session.result_container # 0
       THEN /\ container' = [container EXCEPT
                    ![session.result_container].status = "stopped",
                    ![session.result_container].message = "Generation stopped by user"]
            /\ hist' = [hist EXCEPT ![session.result_container].caller_writes = @ + 1]
       ELSE UNCHANGED <<container, hist>>
    /\ session' = [session EXCEPT !.generation_active = FALSE, !.stop_event = 0,
                                  !.success_message = "Generation stopped successfully"]
    /\ caller' = IdleCaller
    /\ elapsed' = 0
    /\ UNCHANGED <<config, ngen, worker, token, process, watcher, disk>>

\* variant of Run_Poll without the timeout protection of lines 475-483
Run_Poll_NoTimeout ==
    /\ caller.pc = "idle"
    /\ session.generation_active
    /\ LET g == session.result_container
           result == container[g]
           ss == render_status_messages(session)
       IN IF result.status = "completed" THEN
              \* lines 461-465; result['message'] raises KeyError while the
              \* worker has not stored the key, and the run ends there
              /\ session' = [ss EXCEPT
                    !.generated_file = result.file_path,
                    !.generation_metadata = result.metadata,
                    !.success_message = IF result.message = "" THEN @ ELSE result.message,
                    !.generation_active = (result.message = "")]
              /\ hist' = [hist EXCEPT ![g].delivered = @ \/ result.file_path # 0]
              /\ UNCHANGED caller
          ELSE IF result.status = "stopped" THEN
              /\ session' = [ss EXCEPT
                    !.success_message = IF result.message = "" THEN "Generation stopped"
                                        ELSE result.message,
                    !.generation_active = FALSE]
              /\ UNCHANGED <<caller, hist>>
          ELSE IF result.status = "error" THEN
              /\ session' = [ss EXCEPT !.error_message = result.error,
                                       !.generation_active = FALSE]
              /\ UNCHANGED <<caller, hist>>
          ELSE
              /\ session' = ss
              /\ UNCHANGED <<caller, hist>>
    \* lines 487-490: the start time is dropped once no generation is active
    /\ elapsed' = IF session'.generation_active THEN elapsed ELSE 0
    /\ UNCHANGED <<config, ngen, worker, token, container, process, watcher, disk>>

\* lines 455-486: the end of a script run while a generation is active
Run_Poll ==
    /\ caller.pc = "idle"
    /\ session.generation_active
    /\ LET g == session.result_container
           result == container[g]
           ss == render_status_messages(session)
       IN IF result.status = "completed" THEN
              \* lines 461-465; result['message'] raises KeyError while the
              \* worker has not stored the key, and the run ends there
              /\ session' = [ss EXCEPT
                    !.generated_file = result.file_path,
                    !.generation_metadata = result.metadata,
                    !.success_message = IF result.message = "" THEN @ ELSE result.message,
                    !.generation_active = (result.message = "")]
              /\ hist' = [hist EXCEPT ![g].delivered = @ \/ result.file_path # 0]
              /\ UNCHANGED caller
          ELSE IF result.status = "stopped" THEN
              /\ session' = [ss EXCEPT
                    !.success_message = IF result.message = "" THEN "Generation stopped"
                                        ELSE result.message,
                    !.generation_active = FALSE]
              /\ UNCHANGED <<caller, hist>>
          ELSE IF result.status = "error" THEN
              /\ session' = [ss EXCEPT !.error_message = result.error,
                                       !.generation_active = FALSE]
              /\ UNCHANGED <<caller, hist>>
          ELSE IF elapsed > HardTimeout THEN
              /\ session' = [ss EXCEPT !.error_message = "Generation timed out after 6 minutes"]
              /\ caller' = [pc |-> "stop_set", by_timeout |-> TRUE]
              /\ UNCHANGED hist
          ELSE
              /\ session' = ss
              /\ UNCHANGED <<caller, hist>>
    \* lines 487-490: the start time is dropped once no generation is active
    /\ elapsed' = IF session'.generation_active THEN elapsed ELSE 0
    /\ UNCHANGED <<config, ngen, worker, token, container, process, watcher, disk>>

\* time passes while a generation is active
Tick ==
    /\ session.generation_active
    /\ elapsed <= HardTimeout
    /\ elapsed' = elapsed + TickSeconds
    /\ UNCHANGED <<config, ngen, worker, token, container, process, watcher,
                   disk, session, caller, hist>>

\* lines 427-432: the Clear Generated File button
Run_Clear ==
    /\ caller.pc = "idle"
    /\ session.generated_file # 0
    /\ disk[session.generated_file].exists
    /\ disk' = cleanup_temp_file(disk, session.generated_file)
    /\ session' = [render_status_messages(session) EXCEPT
                        !.generated_file = 0, !.generation_metadata = NoMetadata,
                        !.success_message = "File cleared successfully"]
    /\ UNCHANGED <<config, ngen, worker, token, container, process, watcher,
                   caller, elapsed, hist>>

(***************************************************************************)
(* Specifications                                                          *)
(***************************************************************************)
\* a worker's own steps inside generate_presentation / ask_ollama
GenerateStep(g) ==
    \/ GP_TopicCheck(g) \/ GP_Check1(g) \/ GP_Config(g)
    \/ ASK_Check(g) \/ ASK_Popen(g)
    \/ ASK_CommReturn(g) \/ ASK_CommTimeout(g) \/ ASK_CommError(g)
    \/ ASK_Check2(g) \/ ASK_ReturnCode(g)
    \/ GP_Check2(g) \/ GP_Extract(g) \/ GP_Check3(g) \/ GP_Coerce(g)
    \/ GP_Check4(g) \/ GP_Render(g) \/ GP_Return(g)

\* the process and the watcher thread of a call
EnvironmentStep(g) == ProcExit(g) \/ W_Loop(g) \/ W_Grace(g)

\* the handlers of generation_thread
ThreadStep(g) ==
    \/ TH_Check(g) \/ TH_WriteStatus(g) \/ TH_WriteFields(g)
    \/ TH_WriteStopped(g) \/ TH_Cleanup(g)
    \/ TH_ExcStopped(g) \/ TH_ExcCheck(g) \/ TH_ExcWrite(g)

CallerStep ==
    Run_Generate \/ Run_Stop \/ Stop_Set \/ Stop_Write \/ Run_Poll \/ Tick \/ Run_Clear

\* generate_presentation called directly, as test_app.py does: one call,
\* with or without a stop_event, which may be set already
Init ==
    /\ config \in Configs
    /\ ngen = 1
    /\ \E topic \in DirectTopics, use \in BOOLEAN :
        worker = [g \in Gens |->
            IF g = 1 THEN [IdleWorker EXCEPT !.pc = "gp_topic", !.via = "direct",
                                             !.topic = topic, !.use_token = use]
            ELSE IdleWorker]
    /\ token \in [Gens -> BOOLEAN]
    /\ \A g \in Gens : token[g] => g = 1 /\ worker[g].use_token
    /\ container = [g \in Gens |-> AbsentContainer]
    /\ process = [g \in Gens |-> NoProcess]
    /\ watcher = [g \in Gens |-> "off"]
    /\ disk = [g \in Gens |-> NoFile]
    /\ session = InitialSession
    /\ caller = IdleCaller
    /\ elapsed = 0
    /\ hist = [g \in Gens |-> [NoHist EXCEPT !.set_at = IF token[g] THEN "call" ELSE "never"]]

Next == \E g \in Gens : GenerateStep(g) \/ EnvironmentStep(g) \/ DirectSetToken(g)

Spec == Init /\ [][Next]_vars

\* the Streamlit session of app.py: nothing started yet
InitApp ==
    /\ config = DefaultConfig
    /\ ngen = 0
    /\ worker = [g \in Gens |-> IdleWorker]
    /\ token = [g \in Gens |-> FALSE]
    /\ container = [g \in Gens |-> AbsentContainer]
    /\ process = [g \in Gens |-> NoProcess]
    /\ watcher = [g \in Gens |-> "off"]
    /\ disk = [g \in Gens |-> NoFile]
    /\ session = InitialSession
    /\ caller = IdleCaller
    /\ elapsed = 0
    /\ hist = [g \in Gens |-> NoHist]

NextApp ==
    \/ CallerStep
    \/ \E g \in Gens : GenerateStep(g) \/ EnvironmentStep(g) \/ ThreadStep(g)

SpecApp == InitApp /\ [][NextApp]_vars

(***************************************************************************)
(* The extractor and the coercion on their own: extract_and_parse_json     *)
(* followed by validate_and_coerce_slides, as lines 504 and 524 chain them *)
(***************************************************************************)
\* elements of a reply's array: two records, a number, a string
ItemRecordA == <<"{", DQ, "title", DQ, ":", DQ, "A", DQ, "}">>
ItemRecordB ==
    <<"{", DQ, "title", DQ, ":", DQ, "B", DQ, ",",
           DQ, "points", DQ, ":", "[", DQ, "p", DQ, "]", "}">>
ItemNumber == <<"1">>
ItemString == <<DQ, "x", DQ>>
Items == {ItemRecordA, ItemRecordB, ItemNumber, ItemString}

\* longest array and largest slide bound tried
MaxItems == 3
MaxSlideBound == 3

ItemSeqs == UNION {[1..n -> Items] : n \in 0..MaxItems}

RECURSIVE JoinItems(_)
JoinItems(items) ==
    IF items = <<>> THEN <<>>
    ELSE IF Len(items) = 1 THEN Head(items)
    ELSE Head(items) \o <<",", " ">> \o JoinItems(Tail(items))

\* a text with typographic quotes in place of its ASCII double quotes (an
\* opening one, then a closing one, in turn) or of its apostrophes
RECURSIVE Curl(_, _)
Curl(s, opening) ==
    IF s = <<>> THEN <<>>
    ELSE IF Head(s) = DQ
         THEN <<IF opening THEN LDQ ELSE RDQ>> \o Curl(Tail(s), ~opening)
    ELSE <<Head(s)>> \o Curl(Tail(s), opening)

RECURSIVE CurlSingle(_, _)
CurlSingle(s, opening) ==
    IF s = <<>> THEN <<>>
    ELSE IF Head(s) = DQ
         THEN <<IF opening THEN LSQ ELSE RSQ>> \o CurlSingle(Tail(s), ~opening)
    ELSE <<Head(s)>> \o CurlSingle(Tail(s), opening)

\* the array between markers (either letter case, after some prose), the
\* bare array, the array that lost its closing bracket, the array closed
\* twice, the marked array after a stray bracket, and the array after a
\* stray bracket and an opening marker that is never closed; the array
\* with a comma before its closing bracket, with typographic double or
\* single quotes, and with ASCII apostrophes around its strings
Wrap(how, items) ==
    LET block == <<"[">> \o JoinItems(items) \o <<"]">>
    IN CASE how = "tags" -> <<"<json>">> \o block \o <<"</json>">>
         [] how = "TAGS" -> <<"Here", " ", "<JSON>", " ">> \o block \o <<" ", "</JSON>">>
         [] how = "bare" -> block
         [] how = "closed_twice" -> block \o <<"]">>
         [] how = "after_bracket" -> <<"[", " ", "<json>">> \o block \o <<"</json>">>
         [] how = "open_marker" -> <<"[", " ", "<json>">> \o block
         [] how = "trailing_comma" -> <<"[">> \o JoinItems(items) \o <<",", " ", "]">>
         [] how = "curly" -> Curl(block, TRUE)
         [] how = "curly_single" -> CurlSingle(block, TRUE)
         [] how = "apostrophes" -> ReplaceAll(block, 1, <<DQ>>, <<SQ>>)
         [] OTHER -> <<"[">> \o JoinItems(items)
Wraps ==
    {"tags", "TAGS", "bare", "open", "closed_twice", "after_bracket", "open_marker",
     "trailing_comma", "curly", "curly_single", "apostrophes"}

\* line 504
X_Extract(g) ==
    /\ worker[g].pc = "x_extract"
    /\ worker' = [worker EXCEPT ![g] =
            LET data == extract_and_parse_json(@.response)
            IN [@ EXCEPT !.slides_data = data,
                         !.pc = IF data.isList THEN "x_coerce" ELSE "x_none"]]
    /\ UNCHANGED <<config, ngen, token, container, process, watcher, disk,
                   session, caller, elapsed, hist>>

\* line 524
X_Coerce(g) ==
    /\ worker[g].pc = "x_coerce"
    /\ worker' = [worker EXCEPT ![g] =
            [@ EXCEPT !.slides = validate_and_coerce_slides(worker[g].slides_data.items,
                                                            worker[g].max_slides),
                      !.pc = "x_done"]]
    /\ UNCHANGED <<config, ngen, token, container, process, watcher, disk,
                   session, caller, elapsed, hist>>

\* parsed records handed to the coercion directly: a title that is
\* absent, a string (plain, empty, blank) or another value, and points
\* that are absent, a list of up to MaxPoints entries or another value
TitleValues ==
    {VStr(<<"A">>), VStr(<<>>), VStr(<<" ">>), VInt(FALSE, <<"5">>), VNone,
     VList(<<>>), VDict(<<>>, <<>>)}
PointValues ==
    {VStr(<<"p">>), VStr(<<" ", "q", " ">>), VStr(<<" ">>), VStr(<<>>),
     VInt(FALSE, <<"1">>), VNone}
MaxPoints == 2
PointsValues ==
    {VList(ps) : ps \in UNION {[1..n -> PointValues] : n \in 0..MaxPoints}}
    \cup {VStr(<<"p">>), VInt(FALSE, <<"1">>), VNone, VDict(<<>>, <<>>)}
Records ==
    {VDict(<<>>, <<>>)}
    \cup {VDict(<<TitleKey>>, <<t>>) : t \in TitleValues}
    \cup {VDict(<<PointsKey>>, <<p>>) : p \in PointsValues}
    \cup {VDict(<<TitleKey, PointsKey>>, <<t, p>>) : t \in TitleValues, p \in PointsValues}

\* the worker before line 504 with a reply, or before line 524 with a
\* parsed list of one record
ExtractStarts ==
    {[IdleWorker EXCEPT !.pc = "x_extract", !.via = "pure",
                        !.response = Wrap(how, items), !.max_slides = bound] :
        how \in Wraps, items \in ItemSeqs, bound \in 1..MaxSlideBound}
    \cup
    {[IdleWorker EXCEPT !.pc = "x_coerce", !.via = "values",
                        !.slides_data = [isList |-> TRUE, items |-> <<r>>],
                        !.max_slides = bound] :
        r \in Records, bound \in 1..MaxSlideBound}

\* line 482 alone: the heuristic applied to a topic, and to the same topic
\* with one more word, again and again
TopicWords ==
    {<<"overview">>, <<"Overview">>, <<"Steps", ",">>, <<"processes">>,
     <<"course">>, <<"fully">>, <<"x">>}
EstimateTopics ==
    {<<>>,
     <<"overview", " ", "introduction", " ", "complete", " ", "comprehensive", " ",
       "full", " ", "entire", " ", "process", " ", "steps", " ", "workflow", " ",
       "procedure", " ", "implementation", " ", "training", " ", "course", " ",
       "learning", " ", "education", " ", "tutorial">>}
    \cup TopicWords
    \cup {a \o <<" ">> \o b : a \in TopicWords, b \in TopicWords}

\* most words a topic grows to
MaxWords == 51

X_Estimate(g) ==
    /\ worker[g].pc = "h_estimate"
    /\ worker' = [worker EXCEPT ![g] =
            [@ EXCEPT !.max_slides = estimate_slide_count_from_keywords(worker[g].topic),
                      !.pc = "h_done"]]
    /\ UNCHANGED <<config, ngen, token, container, process, watcher, disk,
                   session, caller, elapsed, hist>>

\* the next call: the topic with one more plain word; the estimate of the
\* shorter topic is kept beside it in metadata
X_AddWord(g) ==
    /\ worker[g].pc = "h_done"
    /\ WordCount(worker[g].topic) < MaxWords
    /\ worker' = [worker EXCEPT ![g] =
            [@ EXCEPT !.topic = IF worker[g].topic = <<>> THEN <<"w">>
                                ELSE worker[g].topic \o <<" ", "w">>,
                      !.metadata = [present |-> TRUE, slide_count |-> worker[g].max_slides],
                      !.pc = "h_estimate"]]
    /\ UNCHANGED <<config, ngen, token, container, process, watcher, disk,
                   session, caller, elapsed, hist>>

InitEstimate ==
    /\ config = DefaultConfig
    /\ ngen = 1
    /\ \E topic \in EstimateTopics :
        worker = [g \in Gens |->
            IF g = 1 THEN [IdleWorker EXCEPT !.pc = "h_estimate", !.via = "estimate",
                                             !.topic = topic]
            ELSE IdleWorker]
    /\ token = [g \in Gens |-> FALSE]
    /\ container = [g \in Gens |-> AbsentContainer]
    /\ process = [g \in Gens |-> NoProcess]
    /\ watcher = [g \in Gens |-> "off"]
    /\ disk = [g \in Gens |-> NoFile]
    /\ session = InitialSession
    /\ caller = IdleCaller
    /\ elapsed = 0
    /\ hist = [g \in Gens |-> NoHist]

NextEstimate == \E g \in Gens : X_Estimate(g) \/ X_AddWord(g)

SpecEstimate == InitEstimate /\ [][NextEstimate]_vars

InitExtract ==
    /\ config = DefaultConfig
    /\ ngen = 1
    /\ \E start \in ExtractStarts :
        worker = [g \in Gens |-> IF g = 1 THEN start ELSE IdleWorker]
    /\ token = [g \in Gens |-> FALSE]
    /\ container = [g \in Gens |-> AbsentContainer]
    /\ process = [g \in Gens |-> NoProcess]
    /\ watcher = [g \in Gens |-> "off"]
    /\ disk = [g \in Gens |-> NoFile]
    /\ session = InitialSession
    /\ caller = IdleCaller
    /\ elapsed = 0
    /\ hist = [g \in Gens |-> NoHist]

NextExtract == \E g \in Gens : X_Extract(g) \/ X_Coerce(g)

SpecExtract == InitExtract /\ [][NextExtract]_vars

\* the direct call with its threads scheduled during the model call: the
\* worker thread and the check_stop thread each take their next step when
\* they have one (the sleeps of lines 148 and 154 end; communicate()
\* returns, times out or raises); nothing makes the model process exit or
\* the token be set
SpecWatch ==
    /\ Init /\ [][Next]_vars
    /\ \A g \in Gens : /\ WF_vars(ASK_CommReturn(g) \/ ASK_CommTimeout(g) \/ ASK_CommError(g)
                                    \/ ASK_Check2(g) \/ ASK_ReturnCode(g))
                        /\ WF_vars(W_Loop(g))
                        /\ WF_vars(W_Grace(g))

\* create_presentation alone, on outlines a caller may pass: a first slide
\* and up to MaxLater later slides, whose points are texts of up to
\* MaxPointLen characters among the bullet glyph, the dash, the blank and
\* a letter, alone or followed by a plain point
MaxPointLen == 3
MaxLater == 2
PointTexts == UNION {[1..n -> {BULLET, "-", " ", "x"}] : n \in 0..MaxPointLen}
PointLists == {<<>>} \cup {<<p>> : p \in PointTexts} \cup {<<p, <<"y">>>> : p \in PointTexts}
FirstSlides == {[title |-> <<"A">>, points |-> ps] : ps \in {<<>>, <<<<"x">>>>}}
LaterSlides == {[title |-> t, points |-> ps] : t \in {<<"B">>, <<"C">>}, ps \in PointLists}
PlainSlides == {s \in LaterSlides : s.points \in {<<>>, <<<<"x">>>>, <<<<"-", "x">>, <<"y">>>>}}
Outlines ==
    {<<>>} \cup {<<f>> : f \in FirstSlides}
    \cup {<<f, s>> : f \in FirstSlides, s \in LaterSlides}
    \cup {<<f>> \o later : f \in FirstSlides, later \in [1..MaxLater -> PlainSlides]}

\* line 531, the call that saves
X_Render(g) ==
    /\ worker[g].pc = "r_render"
    /\ disk' = [disk EXCEPT ![g] =
            [exists |-> TRUE, deck |-> create_presentation(worker[g].slides)]]
    /\ worker' = [worker EXCEPT ![g].pc = "r_done"]
    /\ hist' = [hist EXCEPT ![g].render_called = TRUE]
    /\ UNCHANGED <<config, ngen, token, container, process, watcher, session,
                   caller, elapsed>>

InitRender ==
    /\ config = DefaultConfig
    /\ ngen = 1
    /\ \E outline \in Outlines :
        worker = [g \in Gens |->
            IF g = 1 THEN [IdleWorker EXCEPT !.pc = "r_render", !.via = "render",
                                             !.slides = outline]
            ELSE IdleWorker]
    /\ token = [g \in Gens |-> FALSE]
    /\ container = [g \in Gens |-> AbsentContainer]
    /\ process = [g \in Gens |-> NoProcess]
    /\ watcher = [g \in Gens |-> "off"]
    /\ disk = [g \in Gens |-> NoFile]
    /\ session = InitialSession
    /\ caller = IdleCaller
    /\ elapsed = 0
    /\ hist = [g \in Gens |-> NoHist]

NextRender == \E g \in Gens : X_Render(g)

SpecRender == InitRender /\ [][NextRender]_vars

\* the application with its script runs and clock going on: while a
\* generation is active every script run ends in st.rerun() (lines 465-486),
\* so the next poll comes; stop_generation runs to its end; time passes; the
\* handlers of generation_thread are plain assignments.  Nothing makes
\* generate_presentation, the model process or the user take a step.
SpecPoll ==
    /\ InitApp /\ [][NextApp]_vars
    /\ WF_vars(Run_Poll) /\ WF_vars(Stop_Set) /\ WF_vars(Stop_Write) /\ WF_vars(Tick)
    /\ \A g \in Gens : WF_vars(TH_WriteFields(g))

(***************************************************************************)
(* Properties                                                              *)
(***************************************************************************)
\* a direct call of generate_presentation that has ended
Ended(g) == worker[g].via = "direct" /\ worker[g].pc = "done"

\* C1: if the token becomes set while the model call is in flight, the call
\* ends Stopped and never Failed, however the in-flight call ends (exit
\* code zero, non-zero exit, timeout of communicate, I/O exception).
\* Violated: after TimeoutExpired, lines 174-177 raise PPTGenerationError
\* without reading the token.
C1_InFlightSetEndsStopped ==
    \A g \in Gens :
        Ended(g) /\ hist[g].set_in_flight => worker[g].outcome = "Stopped"

\* the other three ways an in-flight call ends do report Stopped
C1_OtherEndsStopped ==
    \A g \in Gens :
        Ended(g) /\ hist[g].set_in_flight /\ hist[g].comm_end # "timeout"
            => worker[g].outcome = "Stopped"

\* where the token can become set before the model process exists
BeforeInvocation == {"call", "gp_topic", "gp_chk1", "gp_config", "ask_chk", "ask_popen"}
\* ... before the checkpoint of line 474 reads it
BeforeFirstCheck == {"call", "gp_topic", "gp_chk1"}
\* ... before the check of line 128 reads it
BeforeAskCheck == {"gp_config", "ask_chk"}

OnlySpaces(topic) == \A i \in 1..Len(topic) : topic[i] \in WS

\* C3: for every topic that is empty or whitespace-only the call ends Failed
\* with 'Topic cannot be empty' before the configuration is loaded, the
\* model process is started or the renderer is called, whatever the token.
C3_BlankTopicFails ==
    \A g \in Gens :
        worker[g].via = "direct" /\ OnlySpaces(worker[g].topic) =>
            /\ worker[g].pc \in {"gp_topic", "done"}
            /\ Ended(g) => /\ worker[g].outcome = "Failed"
                           /\ worker[g].error = "Topic cannot be empty"
            /\ ~hist[g].config_loaded
            /\ process[g].state = "none"
            /\ ~hist[g].render_called
            /\ ~disk[g].exists

\* a whitespace-only topic, the token set, and the call has failed
C3_Witness ==
    \E g \in Gens :
        /\ Ended(g)
        /\ worker[g].topic = <<" ", " ">>
        /\ token[g]
        /\ worker[g].outcome = "Failed"

\* C4: terminal states are absorbing: once a generation's result status is
\* 'completed', 'stopped' or 'error', no later step of the worker or of the
\* caller changes it to a different status.  Violated: stop_generation
\* (lines 314-316) stores 'stopped' whatever the status is, and the worker
\* stores 'completed' (line 282) on a token test it made before the stop.
C4_TerminalAbsorbing ==
    [][\A g \in Gens :
          container[g].status \in Terminal
              => container'[g].status = container[g].status]_vars

\* C5: the result slot of a generation is written exactly once and only by
\* the worker; the caller only reads it.  Violated: stop_generation writes
\* status and message into the slot, before, after or instead of the worker.
C5_SlotWrittenOnceByWorker ==
    \A g \in Gens :
        /\ hist[g].caller_writes = 0
        /\ hist[g].worker_writes <= 1

\* C6: a stop requested after the worker has recorded 'completed' or 'error'
\* is a no-op: the recorded status stays.  Violated: the slot becomes
\* 'stopped' and the rendered file is never handed to the session.
C6_LateStopIsNoOp ==
    \A g \in Gens :
        hist[g].stop_after \in {"completed", "error"} /\ caller.pc # "stop_write"
            => container[g].status = hist[g].stop_after

\* C7: whenever a generation has ended 'stopped', no file rendered for it
\* remains on disk.  Violated: a stop that arrives after the worker stored
\* 'completed' marks the generation stopped and nobody unlinks the file.
C7_StoppedLeavesNoFile ==
    \A g \in Gens :
        /\ worker[g].via = "thread" /\ worker[g].pc = "done"
        /\ container[g].status = "stopped"
        /\ session.result_container = g => caller.pc = "idle"
        /\ ~hist[g].render_raised
        => ~disk[g].exists

\* slides a direct call handed to the renderer, and what the reply gave
NoUsableRecords(w) ==
    LET data == extract_and_parse_json(w.response)
    IN Falsy(data) \/ validate_and_coerce_slides(data.items, w.max_slides) = <<>>

\* the model call returned with exit code zero, the token was never set and
\* the renderer did not raise
CleanRun(g) ==
    /\ Ended(g)
    /\ hist[g].comm_end = "exit_zero"
    /\ ~token[g]
    /\ ~hist[g].render_raised

\* C8: never-fail guarantee: for every reply, a call whose model call
\* returned normally, whose token was never set and whose renderer did not
\* raise ends Completed with slide_count >= 1.  Violated under the shipped
\* configuration: a reply that is a non-empty list without a dict is truthy
\* at line 506, so no fallback is substituted, and the deck has no slide.
C8_NeverFailNeverEmpty ==
    \A g \in Gens :
        CleanRun(g) /\ config = DefaultConfig
            => /\ worker[g].outcome = "Completed"
               /\ worker[g].metadata.slide_count >= 1

\* the fallback outline after coercion
FallbackSlides(topic) ==
    << [title |-> Strip(topic), points |-> <<>>],
       [title |-> <<"Overview">>,
        points |-> [i \in 1..Len(FallbackPoints) |-> Strip(FallbackPoints[i])]] >>

\* C9: whenever the reply gives no usable slide record, the outline handed
\* to the renderer is exactly the two-slide fallback and the result is
\* Completed with slide_count = 2.  Violated under the shipped
\* configuration: the fallback is decided on the parsed list (line 506),
\* before coercion drops the elements that are not dicts.
C9_EmptyOutlineGivesFallback ==
    \A g \in Gens :
        CleanRun(g) /\ config = DefaultConfig /\ NoUsableRecords(worker[g])
            => /\ worker[g].outcome = "Completed"
               /\ worker[g].slides = FallbackSlides(worker[g].topic)
               /\ worker[g].metadata.slide_count = 2

\* the records at the top level of the array of a text: the "{" met at
\* depth one, counted on the tokens without parsing
RECURSIVE CountRecords(_, _, _)
CountRecords(text, i, depth) ==
    IF i > Len(text) THEN 0
    ELSE IF text[i] \in {"[", "{"}
         THEN (IF text[i] = "{" /\ depth = 1 THEN 1 ELSE 0)
              + CountRecords(text, i + 1, depth + 1)
    ELSE IF text[i] \in {"]", "}"} THEN CountRecords(text, i + 1, depth - 1)
    ELSE CountRecords(text, i + 1, depth)

\* an opening marker with a closing marker after it
HasMarkers(text) ==
    \E i, j \in 1..Len(text) : i < j /\ text[i] \in OpenTags /\ text[j] \in CloseTags

\* C10: for every input with a well-formed block between matching markers,
\* extraction followed by coercion returns min(number of top-level records
\* of the block, max_slides) slides, wherever the block's other elements
\* stand.  Violated: line 242 cuts the parsed list to max_slides elements
\* before the elements that are not dicts are skipped.
C10_LengthIsCappedRecordCount ==
    \A g \in Gens :
        worker[g].via = "pure" /\ worker[g].pc = "x_done" /\ HasMarkers(worker[g].response)
            => Len(worker[g].slides)
                 = Min(CountRecords(worker[g].response, 1, 0), worker[g].max_slides)

\* "[" minus "]" among text[from..to]
Depth(text, from, to) ==
    Cardinality({i \in from..to : text[i] = "["})
    - Cardinality({i \in from..to : text[i] = "]"})

\* the square brackets of a text pair up
Balanced(text) ==
    /\ \A j \in 1..Len(text) : Depth(text, 1, j) >= 0
    /\ Depth(text, 1, Len(text)) = 0

\* no "[" at all, or the first "[" is never closed
NeverCloses(text) ==
    \A s \in 1..Len(text) :
        text[s] = "[" /\ (\A i \in 1..(s - 1) : text[i] # "[")
            => \A j \in s..Len(text) : Depth(text, s, j) > 0

\* the extractor has been applied to the text of a worker
Extracted(g) == worker[g].via = "pure" /\ worker[g].pc \in {"x_none", "x_coerce", "x_done"}

\* C11 as stated: for every text whose square brackets are unbalanced or
\* absent, extraction gives an empty result (None, or no slide).  Violated:
\* the scan of lines 208-218 stops at the first "]" that closes the first
\* "[", whatever follows it, and a marked block is taken without any scan.
C11_UnbalancedGivesNothing ==
    \A g \in Gens :
        Extracted(g) /\ ~Balanced(worker[g].response)
            => (worker[g].pc = "x_done" => worker[g].slides = <<>>)

\* C11 amended: for every text without a pair of markers that has no "["
\* or whose first "[" is never closed, extraction returns None.
C11_UnclosedGivesNone ==
    \A g \in Gens :
        Extracted(g) /\ ~HasMarkers(worker[g].response) /\ NeverCloses(worker[g].response)
            => worker[g].pc = "x_none" /\ ~worker[g].slides_data.isList

\* an array of two elements that lost its closing bracket gave None
C11_Witness ==
    \E g \in Gens :
        /\ worker[g].via = "pure" /\ worker[g].pc = "x_none"
        /\ worker[g].response = <<"[">> \o ItemRecordA \o <<",", " ">> \o ItemRecordB

\* the coercion has been applied to a parsed list of one record
Coerced(g) ==
    /\ worker[g].via = "values" /\ worker[g].pc = "x_done"
    /\ Len(worker[g].slides_data.items) = 1

\* the record of such a list, whether it has a key, and the key's value
RecordOf(g) == worker[g].slides_data.items[1]
HasKey(r, k) == \E i \in 1..Len(r.keys) : r.keys[i] = k
ValueAt(r, k) == r.vals[CHOOSE i \in 1..Len(r.keys) : r.keys[i] = k]

\* C12: every slide produced by validate_and_coerce_slides has a non-empty
\* title.  Violated: line 246 takes str() of whatever the title is, and the
\* default only replaces an absent key, so the title "" stays "".
C12_TitleNeverEmpty ==
    \A g \in Gens :
        worker[g].pc = "x_done" =>
            \A i \in 1..Len(worker[g].slides) : worker[g].slides[i].title # <<>>

\* C13: a record whose title key is absent or whose title is not a string
\* gets the title 'Untitled Slide'.  Violated: str() turns 5 into '5',
\* None into 'None', [] into '[]' and {} into '{}'.
C13_WrongTypeTitleIsDefault ==
    \A g \in Gens :
        Coerced(g) /\ (~HasKey(RecordOf(g), TitleKey) \/ ValueAt(RecordOf(g), TitleKey).t # "str")
            => /\ Len(worker[g].slides) = 1
               /\ worker[g].slides[1].title = <<"Untitled Slide">>

\* the part of C13 that the code does keep: an absent key gives the default
C13_AbsentTitleIsDefault ==
    \A g \in Gens :
        Coerced(g) /\ ~HasKey(RecordOf(g), TitleKey)
            => worker[g].slides[1].title = <<"Untitled Slide">>

\* a text without its leading and trailing blanks
Trimmed(s) ==
    LET solid == {i \in 1..Len(s) : s[i] \notin WS}
    IN IF solid = {} THEN <<>>
       ELSE SubSeq(s, CHOOSE i \in solid : \A j \in solid : i <= j,
                      CHOOSE i \in solid : \A j \in solid : i >= j)

\* the entries of a points value that are strings and not blank, trimmed,
\* in their order; nothing if the value is not a list
ExpectedPoints(p) ==
    IF p.t # "list" THEN <<>>
    ELSE LET kept == {i \in 1..Len(p.items) :
                        p.items[i].t = "str" /\ Trimmed(p.items[i].s) # <<>>}
             nth(n) == CHOOSE i \in kept : Cardinality({j \in kept : j < i}) = n - 1
         IN [n \in 1..Cardinality(kept) |-> Trimmed(p.items[nth(n)].s)]

\* C14: the points of a coerced slide are exactly the record's points
\* entries that are strings and non-blank after trimming, each trimmed, in
\* their order; a points value that is not a list (or no points key) gives
\* no points.
C14_PointsAreCleanStrings ==
    \A g \in Gens :
        Coerced(g) =>
            /\ Len(worker[g].slides) = 1
            /\ worker[g].slides[1].points =
                 IF HasKey(RecordOf(g), PointsKey)
                 THEN ExpectedPoints(ValueAt(RecordOf(g), PointsKey))
                 ELSE <<>>

\* a padded string kept and trimmed, a number dropped
C14_Witness ==
    \E g \in Gens :
        /\ Coerced(g)
        /\ HasKey(RecordOf(g), PointsKey)
        /\ ValueAt(RecordOf(g), PointsKey) = VList(<<VStr(<<" ", "q", " ">>), VInt(FALSE, <<"1">>)>>)
        /\ worker[g].slides[1].points = << <<"q">> >>

\* a text with every typographic quote replaced by its ASCII quote
RECURSIVE Straighten(_)
Straighten(s) ==
    IF s = <<>> THEN <<>>
    ELSE <<CASE Head(s) \in {LDQ, RDQ} -> DQ
             [] Head(s) \in {LSQ, RSQ} -> SQ
             [] OTHER -> Head(s)>> \o Straighten(Tail(s))

HasCurly(s) == \E i \in 1..Len(s) : s[i] \in {LDQ, RDQ, LSQ, RSQ}

\* C15: the candidate is normalized before parsing (typographic quotes to
\* ASCII quotes, dashes to "-", trailing commas removed), so a text that
\* differs from valid JSON only by typographic quotes or by a trailing
\* comma is recovered as the same list as the valid text.  Violated: lines
\* 222-223 name no typographic quote, so such a text is not parsed at all.
C15_CurlyQuotesRecovered ==
    \A g \in Gens :
        Extracted(g) =>
            worker[g].slides_data = extract_and_parse_json(Straighten(worker[g].response))

\* the part of C15 that the code does keep: the array with a comma before
\* its closing bracket is parsed as the array without it
C15_TrailingCommaRecovered ==
    \A g \in Gens : \A items \in ItemSeqs :
        Extracted(g) /\ worker[g].response = Wrap("trailing_comma", items)
            => /\ worker[g].slides_data.isList
               /\ worker[g].slides_data = extract_and_parse_json(Wrap("bare", items))

\* the heuristic has been applied to the topic
Estimated(g) == worker[g].via = "estimate" /\ worker[g].pc = "h_done"

\* the occurrences of the listed words in a text, each one counted
Occurrences(words, text) ==
    Cardinality({<<w, i>> \in words \X (1..Len(text)) : Within(w, Lower(text[i]))})

\* C16: the estimate is clamp(int(5 + 2*B + 1.5*P + 2*T + 0.5*C +
\* floor(W/25)), 3, 18) with B, P, T the numbers of occurrences of the
\* broad-scope, process and training keywords, C the commas and W the
\* words.  Violated: lines 106-108 add one term per listed keyword that is
\* found in the text, however often it is found.
C16_EachOccurrenceCounted ==
    \A g \in Gens :
        Estimated(g) =>
            worker[g].max_slides =
                LET t == worker[g].topic
                    claimed2 == 10 + 4 * Occurrences(BroadWords, t)
                                   + 3 * Occurrences(ProcessWords, t)
                                   + 4 * Occurrences(TrainingWords, t)
                                   + CountCommas(t) + 2 * (WordCount(t) \div 25)
                IN Max(3, Min(18, claimed2 \div 2))

\* C17: the estimate lies in [3, 18], and the estimate of a topic with one
\* more plain word (same keywords, same commas) is not below the estimate
\* of the topic without it.
C17_MonotonicAndClamped ==
    \A g \in Gens :
        Estimated(g) =>
            /\ worker[g].max_slides \in 3..18
            /\ worker[g].metadata.present
                   => worker[g].metadata.slide_count <= worker[g].max_slides

\* the 25th word has raised the estimate
C17_Witness ==
    \E g \in Gens :
        /\ Estimated(g)
        /\ WordCount(worker[g].topic) = 25
        /\ worker[g].metadata.present
        /\ worker[g].metadata.slide_count < worker[g].max_slides

\* a direct call that has computed its slide bound (lines 481-482)
BoundComputed(g) ==
    /\ worker[g].via = "direct"
    /\ hist[g].config_loaded
    /\ config.template_ok

\* the bound lies in the configured range, and a Completed call has no
\* more slides than the bound
BoundRespected(g) ==
    /\ worker[g].max_slides \in config.min_slides..config.max_slides
    /\ worker[g].pc = "done" /\ worker[g].outcome = "Completed"
           => worker[g].metadata.slide_count <= worker[g].max_slides

\* C18 as stated: for every configuration the bound lies within
\* [min_slides, max_slides] and the Completed slide_count never exceeds it.
\* Violated by a configuration with min_slides > max_slides (the bound is
\* min_slides, above max_slides) and by a negative range (a negative bound
\* cuts the list from its end).
C18_BoundWithinAnyRange ==
    \A g \in Gens : BoundComputed(g) => BoundRespected(g)

\* C18 for the configurations with 0 <= min_slides <= max_slides: the
\* bound lies within [min_slides, max_slides], also when that range lies
\* outside [3, 18], and the Completed slide_count never exceeds it.
C18_BoundWithinProperRange ==
    \A g \in Gens :
        BoundComputed(g) /\ 0 <= config.min_slides /\ config.min_slides <= config.max_slides
            => BoundRespected(g)

\* a Completed call under the range [1, 1], for a reply of two records
C18_Witness ==
    \E g \in Gens :
        /\ BoundComputed(g) /\ config = OneSlideConfig
        /\ worker[g].pc = "done" /\ worker[g].outcome = "Completed"
        /\ worker[g].response = ReplyTwoSlides
        /\ worker[g].metadata.slide_count = 1

\* the token of an ended direct call was set while the call stood at one
\* of these places
SetAt(g, places) == Ended(g) /\ hist[g].set_at \in places

\* C19: the checkpoints come in the order before the model process is
\* started, after the model call returns, before the extractor, before the
\* renderer, each one with its guarded operation not yet started; and a call
\* whose token is set while it stands at a checkpoint ends Stopped without
\* ever starting the operation that checkpoint guards.
C19_CheckpointGuardsOperation ==
    \A g \in Gens :
        /\ worker[g].via = "direct" /\ worker[g].pc \in {"gp_chk1", "ask_chk"}
               => process[g].state = "none" /\ ~hist[g].extractor_ran
        /\ worker[g].via = "direct" /\ worker[g].pc \in {"ask_chk2", "gp_chk2"}
               => process[g].state # "none" /\ ~hist[g].extractor_ran
        /\ worker[g].via = "direct" /\ worker[g].pc = "gp_chk4"
               => hist[g].extractor_ran /\ ~hist[g].render_called
        /\ SetAt(g, {"gp_chk1", "ask_chk"})
               => worker[g].outcome = "Stopped" /\ process[g].state = "none"
        /\ SetAt(g, {"ask_chk2", "gp_chk2"})
               => worker[g].outcome = "Stopped" /\ ~hist[g].extractor_ran
        /\ SetAt(g, {"gp_chk4"})
               => worker[g].outcome = "Stopped" /\ ~hist[g].render_called /\ ~disk[g].exists

\* a call stopped at the checkpoint before the extractor, after its model
\* call returned normally
C19_Witness ==
    \E g \in Gens :
        /\ SetAt(g, {"gp_chk2"})
        /\ hist[g].comm_end = "exit_zero"
        /\ worker[g].outcome = "Stopped"
        /\ ~hist[g].extractor_ran

\* the model process of a call is running and has not been signalled
Unsignalled(g) == process[g].state = "running" /\ process[g].sig = "none"

\* C20, first part: while the model process is running with a token
\* supplied, if the token becomes set then the process is eventually sent
\* terminate() (unless it exits before).  Violated: when communicate()
\* raises an exception other than TimeoutExpired, lines 182-187 leave the
\* call and clear self._process without signalling the process, the loop
\* of line 144 ends, and the process runs on with the token set.
C20_SetLeadsToTerminate ==
    \A g \in Gens :
        (Unsignalled(g) /\ TokenSet(g)) ~> ~Unsignalled(g)

\* the other parts of C20, which the code keeps: a signal is sent only with
\* the token set, kill() only from the grace period after terminate() and
\* only to a process still running, and the watcher is not left looping
\* over a process that has exited
C20_SignalsOnlyWhenSet ==
    [][\A g \in Gens :
           process'[g].sig # process[g].sig
               => /\ TokenSet(g)
                  /\ process[g].state = "running"
                  /\ process'[g].sig = "term" => watcher[g] = "loop"
                  /\ process'[g].sig = "kill"
                         => watcher[g] = "grace" /\ process[g].sig = "term"]_vars

C20_WatcherStops ==
    \A g \in Gens :
        (watcher[g] = "loop" /\ process[g].state = "exited") ~> (watcher[g] = "done")

Started == ngen' = ngen + 1

\* C22: immediately after start_generation the result slot is fresh, the
\* token is a fresh unset one, and no generated file path, metadata or
\* status message of the previous generation remains in the session state.
\* Violated: lines 257-267 assign stop_event, generation_active,
\* generation_start_time and result_container only, so generated_file and
\* generation_metadata of the previous generation stay.
C22_StartClearsStaleState ==
    [][Started =>
          /\ container'[ngen'] = FreshContainer
          /\ ~token'[ngen']
          /\ session'.stop_event = ngen' /\ session'.result_container = ngen'
          /\ session'.generated_file = 0
          /\ session'.generation_metadata = NoMetadata
          /\ session'.error_message = "none" /\ session'.success_message = "none"]_vars

\* the part of C22 that the code does keep: the slot and the token are
\* new, and the messages were shown and cleared by the same script run
C22_StartGivesFreshSlot ==
    [][Started =>
          /\ container'[ngen'] = FreshContainer
          /\ ~token'[ngen']
          /\ session'.stop_event = ngen' /\ session'.result_container = ngen'
          /\ session'.error_message = "none" /\ session'.success_message = "none"]_vars

\* create_presentation has rendered the outline of the worker
Rendered(g) == worker[g].via = "render" /\ worker[g].pc = "r_done"

\* a paragraph begins with the bullet glyph and a space, and what follows
\* does not begin with another bullet glyph
OneLeadingBullet(par) ==
    /\ Len(par) >= 2 /\ par[1] = BULLET /\ par[2] = " "
    /\ LET rest == LStrip(SubSeq(par, 3, Len(par)))
       IN rest = <<>> \/ Head(rest) # BULLET

\* one slide per entry in order, the first with the title layout and no
\* paragraph, every later one with one paragraph per point
DeckFollowsOutline(g) ==
    LET deck == disk[g].deck
        outline == worker[g].slides
    IN /\ Len(deck) = Len(outline)
       /\ \A i \in 1..Len(deck) :
            /\ deck[i].title = outline[i].title
            /\ i = 1 => deck[i].layout = "title" /\ deck[i].paragraphs = <<>>
            /\ i > 1 => Len(deck[i].paragraphs) = Len(outline[i].points)

\* C23: create_presentation adds one slide per outline entry, in order;
\* slide 0 uses the title layout and gets no points; on every later slide
\* each point becomes one paragraph, in order, the bullet glyph and a space
\* before the point without its leading marker, so that every rendered
\* point carries exactly one leading bullet glyph.  Violated: lines 332-335
\* remove one bullet glyph and then one dash, so the second glyph of a
\* point that begins with two markers stays behind the added one.
C23_OneBulletPerPoint ==
    \A g \in Gens :
        Rendered(g) =>
            /\ DeckFollowsOutline(g)
            /\ \A i \in 1..Len(disk[g].deck) :
                 \A k \in 1..Len(disk[g].deck[i].paragraphs) :
                    OneLeadingBullet(disk[g].deck[i].paragraphs[k])

\* the part of C23 that the code does keep
C23_DeckFollowsOutline ==
    \A g \in Gens : Rendered(g) => DeckFollowsOutline(g)

\* how an ended direct call ended: exactly one of a returned pair, a
\* GenerationStopped and a PPTGenerationError
OneOfThree(g) ==
    /\ worker[g].outcome \in {"Completed", "Stopped", "Failed"}
    /\ worker[g].outcome = "Completed" <=> worker[g].metadata.present
    /\ worker[g].outcome = "Completed" <=> worker[g].error = "none"
    /\ worker[g].outcome = "Stopped" <=> worker[g].error = "Generation stopped by user"

\* a timeout of the model call and an exception of the renderer end Failed
TimeoutAndRendererFail(g) ==
    /\ hist[g].comm_end = "timeout" => worker[g].outcome = "Failed"
    /\ hist[g].render_raised => worker[g].outcome = "Failed"

\* a GenerationStopped raised inside the try of line 476 stays one
StoppedStaysStopped(g) ==
    hist[g].set_at \in {"gp_chk2", "gp_chk4"} => worker[g].outcome = "Stopped"

\* C24 as stated: the call ends in exactly one of the three ways; a model
\* process error, a model-call timeout and an exception of the renderer
\* always end Failed; a GenerationStopped is never wrapped.  Violated: with
\* the token set, a non-zero exit code (lines 163 and 168-169) and an
\* exception of communicate() (lines 183-184) end Stopped.
C24_ProcessErrorAlwaysFails ==
    \A g \in Gens :
        Ended(g) =>
            /\ OneOfThree(g) /\ TimeoutAndRendererFail(g) /\ StoppedStaysStopped(g)
            /\ hist[g].comm_end \in {"exit_nonzero", "io_error"}
                   => worker[g].outcome = "Failed"

\* C24 with a model process error ending Failed unless the token is set,
\* when it ends Stopped: a process error ends Failed or Stopped, never
\* Completed, and Failed whenever the token is unset.
C24_ProcessErrorFailsUnlessStopped ==
    \A g \in Gens :
        Ended(g) =>
            /\ OneOfThree(g) /\ TimeoutAndRendererFail(g) /\ StoppedStaysStopped(g)
            /\ worker[g].outcome = "Stopped" => token[g]
            /\ hist[g].comm_end \in {"exit_nonzero", "io_error"}
                   => /\ worker[g].outcome \in {"Failed", "Stopped"}
                      /\ ~token[g] => worker[g].outcome = "Failed"

\* a call whose model process exited with an error while the token was set
C24_Witness ==
    \E g \in Gens :
        /\ Ended(g)
        /\ hist[g].comm_end = "exit_nonzero"
        /\ process[g].sig = "none"
        /\ worker[g].outcome = "Stopped"

\* the generations whose result slot says 'generating'
Generating == {g \in Gens : container[g].status = "generating"}

\* C25: start_generation runs only while generation_active is false, and
\* each run starts exactly one worker; so at most one generation is active
\* at any moment (one slot at most says 'generating', and it is the
\* session's), and a new one is started only after every earlier one has a
\* terminal status in its slot.
C25_OneActiveGeneration ==
    /\ [][Started =>
              /\ ~session.generation_active /\ session'.generation_active
              /\ worker[ngen'].pc = "idle" /\ worker'[ngen'].pc = "gp_topic"
              /\ \A g \in Gens \ {ngen'} :
                    /\ worker'[g] = worker[g]
                    /\ g < ngen' => container[g].status \in Terminal]_vars
    /\ [][\A g \in Gens : worker[g].pc = "idle" /\ worker'[g].pc # "idle" => Started]_vars
    /\ [](/\ Cardinality(Generating) <= 1
          /\ \A g \in Generating : session.generation_active /\ session.result_container = g)

\* the second generation is active while the worker of the first, which
\* was stopped, is still inside the model call
C25_Witness ==
    /\ ngen = 2
    /\ session.generation_active /\ session.result_container = 2
    /\ container[2].status = "generating"
    /\ container[1].status = "stopped"
    /\ worker[1].pc = "ask_comm" /\ worker[2].pc = "ask_comm"

\* a step of the worker thread of generation g (not its creation)
WorkerMoves(g) == worker'[g] # worker[g] /\ ~Started

\* C26: a worker thread writes only to its own result container and reads
\* only its own token: no step of a worker changes the slot, the file or
\* the token of another generation, or anything in the session state
\* (result_container, stop_event, generated_file, generation_active), and
\* its tests of lines 280 and 296 follow its own token; under every
\* interleaving of an old worker, a new worker and the caller.
C26_WorkerKeepsToItsOwn ==
    [][\A g \in Gens :
          WorkerMoves(g) =>
              /\ session' = session
              /\ token' = token
              /\ \A h \in Gens \ {g} :
                    container'[h] = container[h] /\ disk'[h] = disk[h]
              /\ worker[g].pc = "th_chk" => (worker'[g].pc = "th_w_stopped") = token[g]
              /\ worker[g].pc = "th_exc_chk" => (worker'[g].pc = "done") = token[g]]_vars

\* the worker of the first generation, stopped, has just stored 'completed'
\* in its own slot while the second generation is active and untouched
C26_Witness ==
    /\ ngen = 2
    /\ token[1] /\ worker[1].pc = "th_w_fields" /\ container[1].status = "completed"
    /\ session.generation_active /\ session.result_container = 2
    /\ ~token[2] /\ container[2] = FreshContainer

=============================================================================
